---- MODULE Spec2Model ----
(***************************************************************************)
(* Readers of the append-only, memory-mapped market-data log files of      *)
(* albine/screwdriver: header reading, magic-based dispatch, symbol search *)
(* with pagination, tail reads, the single-pass batch exporter, the        *)
(* checked sequential importer and the single-symbol exporter, run against *)
(* a log file that an external engine may be appending to.                 *)
(***************************************************************************)
EXTENDS Integers, Sequences, FiniteSets, TLC

(***************************************************************************)
(* Bounds of the model.                                                    *)
(***************************************************************************)
MaxRecords == 3
MaxCount == 4
MaxPage == 2
MaxPageSize == 2
MaxAppend == 2
\* validator inputs: records behind the padding, padding records, and a
\* record cap small enough to be exceeded
MaxFree == 2
PadRecords == 9
CapArg == 2
\* exporter inputs: records of a file whose optional fields vary
MaxLines == 1
\* records in each file of a multi-file run
RunRecords == 1

(***************************************************************************)
(* Program constants.                                                      *)
(***************************************************************************)
MAGIC_ORDER_V1 == 1296322386
MAGIC_TRANSACTION_V1 == 1296323672
MAGIC_TICK_V1 == 1296323659
MAGIC_SNAPSHOT_V1 == 1296322370
MAGIC_ORDER_V2 == 1330791474
MAGIC_TRANSACTION_V2 == 1415073330
MAGIC_TICK_V2 == 1414089522
MAGIC_ORDERBOOK_V2 == 1329744690

SIZE_ORDER_V1 == 144
SIZE_TRANSACTION_V1 == 128
SIZE_TICK_V1 == 2216
SIZE_SNAPSHOT_V1 == 728
SIZE_ORDER_V2 == 144
SIZE_TRANSACTION_V2 == 136
SIZE_TICK_V2 == 2216
SIZE_SNAPSHOT_V2 == 736

HEADER_SIZE == 64
\* struct.unpack('<IHHQQ', data[:24]) needs exactly 24 bytes
HEADER_UNPACK_LEN == 24
\* width of the htscsecurityid field
SYMBOL_LEN == 40

\* a magic outside the table ("XXXX")
MAGIC_UNKNOWN == 1482184792
\* bytes of the pre-extended region behind the last record
PreExtend == 4096

KnownMagics ==
  { MAGIC_ORDER_V1, MAGIC_TRANSACTION_V1, MAGIC_TICK_V1, MAGIC_SNAPSHOT_V1,
    MAGIC_ORDER_V2, MAGIC_TRANSACTION_V2, MAGIC_TICK_V2, MAGIC_ORDERBOOK_V2 }

Kinds == {"order", "txn", "tick", "snap"}

\* the record kind a magic names (magic table of the format)
KindOfMagic(m) ==
  CASE m \in {MAGIC_ORDER_V1, MAGIC_ORDER_V2} -> "order"
    [] m \in {MAGIC_TRANSACTION_V1, MAGIC_TRANSACTION_V2} -> "txn"
    [] m \in {MAGIC_TICK_V1, MAGIC_TICK_V2} -> "tick"
    [] m \in {MAGIC_SNAPSHOT_V1, MAGIC_ORDERBOOK_V2} -> "snap"
    [] OTHER -> "none"

\* the record size a magic mandates (0 for a magic outside the table)
MandatedSize(m) ==
  CASE m = MAGIC_ORDER_V1 -> SIZE_ORDER_V1
    [] m = MAGIC_TRANSACTION_V1 -> SIZE_TRANSACTION_V1
    [] m = MAGIC_TICK_V1 -> SIZE_TICK_V1
    [] m = MAGIC_SNAPSHOT_V1 -> SIZE_SNAPSHOT_V1
    [] m = MAGIC_ORDER_V2 -> SIZE_ORDER_V2
    [] m = MAGIC_TRANSACTION_V2 -> SIZE_TRANSACTION_V2
    [] m = MAGIC_TICK_V2 -> SIZE_TICK_V2
    [] m = MAGIC_ORDERBOOK_V2 -> SIZE_SNAPSHOT_V2
    [] OTHER -> 0

Range(q) == { q[k] : k \in DOMAIN q }

Min(a, b) == IF a < b THEN a ELSE b
Max(a, b) == IF a > b THEN a ELSE b

\* Python's  target in symbol  on byte strings: substring test
Contains(target, sym) ==
  \E k \in 0..(Len(sym) - Len(target)) :
     SubSeq(sym, k + 1, k + Len(target)) = target

\* a byte that is no valid UTF-8, and the replacement character
INVALID == "xFF"
REPLACEMENT == "uFFFD"
IsValidByte(b) == b # INVALID

\* bytes.decode('utf-8', errors=...): strict raises UnicodeDecodeError on an
\* invalid byte, ignore drops it, replace puts U+FFFD in its place
decode(bytes, errors) ==
  CASE errors = "strict" ->
         IF \E k \in DOMAIN bytes : ~IsValidByte(bytes[k])
         THEN [ok |-> FALSE, str |-> << >>]
         ELSE [ok |-> TRUE, str |-> bytes]
    [] errors = "ignore" ->
         [ok |-> TRUE, str |-> SelectSeq(bytes, IsValidByte)]
    [] errors = "replace" ->
         [ok |-> TRUE,
          str |-> [k \in DOMAIN bytes |->
                     IF IsValidByte(bytes[k]) THEN bytes[k] ELSE REPLACEMENT]]

\* the first n bytes of a byte string (a short read or slice)
Take(s, n) == SubSeq(s, 1, Min(Len(s), Max(n, 0)))


(***************************************************************************)
(* State.                                                                  *)
(***************************************************************************)
VARIABLES
  \* the log file: header fields, physical size in bytes, and the symbol
  \* stored in the record slot at each index (1-based sequence)
  magic, struct_size, record_count, fileSize, stored,
  \* the engine appending to the file: bytes written of the record in
  \* progress, and the number of records it has appended
  wbytes, appended,
  \* the invocation of a reading tool
  tool, dtype, target, page, page_size, count, symbols_bytes,
  \* the reader's control state and locals
  pc, header, mapLen, format_version, record_size, read_func,
  total_records, i, results, found, skipped, counts, files,
  \* instrumentation: indices read, record reads made, end of the
  \* highest byte handed to a decoder
  readIdx, nread, decodedHi,
  \* the numeric fields of the record at each index (1-based sequence)
  recs,
  \* the Sequence Validator: its record cap, the per-channel lists it
  \* builds, the channels it has analysed and the counts it has printed
  max_records, channel_data, checked, report,
  \* the Batch Exporter: its end-time bound, and the keys of each line
  \* written to each output stream
  end_time, lines,
  \* the symbol strings the reader has decoded, each with its record index
  decodedSyms,
  \* a run over several files of one data directory: the kinds in the
  \* order the tool takes them, the file of each kind, the position of the
  \* file being read, and what became of the files already left
  run, siblings, fileNo, outcomes,
  \* one application of a record decoder, format_time or a symbol
  \* normalisation: the function, its argument, the record bytes, the result
  \* (each of the last three is << >> or a one-element sequence)
  fn, arg, buf, out

fileVars == <<magic, struct_size, record_count, fileSize, stored, recs>>
writerVars == <<wbytes, appended>>
fnVars == <<fn, arg, buf, out>>
callVars == <<tool, dtype, target, page, page_size, count, symbols_bytes,
              end_time, fnVars>>
readerVars == <<pc, header, mapLen, format_version, record_size, read_func,
                total_records, i, results, found, skipped, counts, files>>
probeVars == <<readIdx, nread, decodedHi>>
valVars == <<max_records, channel_data, checked, report>>
outVars == <<lines, decodedSyms>>
runVars == <<run, siblings, fileNo, outcomes>>
extVars == <<valVars, outVars, runVars>>
vars == <<fileVars, writerVars, callVars, readerVars, probeVars, extVars>>

(***************************************************************************)
(* Header Codec.                                                           *)
(***************************************************************************)
\* read_mmap_v2.detect_version
detect_version(m) ==
  IF m \in {MAGIC_ORDER_V1, MAGIC_TRANSACTION_V1, MAGIC_TICK_V1, MAGIC_SNAPSHOT_V1}
  THEN 1
  ELSE IF m \in {MAGIC_ORDER_V2, MAGIC_TRANSACTION_V2, MAGIC_TICK_V2, MAGIC_ORDERBOOK_V2}
  THEN 2
  ELSE 0

\* download_mmap_data_v2 (remote script) detect_version: no snapshot magics
detect_version_export(m) ==
  IF m \in {MAGIC_ORDER_V1, MAGIC_TRANSACTION_V1, MAGIC_TICK_V1}
  THEN 1
  ELSE IF m \in {MAGIC_ORDER_V2, MAGIC_TRANSACTION_V2, MAGIC_TICK_V2}
  THEN 2
  ELSE 0

\* what a failed header read leaves: an exception, no header
NoHeader ==
  [ok |-> FALSE, magic |-> 0, struct_size |-> 0, record_count |-> 0,
   format_version |-> 0]

\* read_header of read_mmap_v2.py, read_mmap.py, batch_export_server.py and
\* the remote export script, on a mapping of len bytes: mm.read(HEADER_SIZE)
\* may come back short, and data[:24] is what struct.unpack is given
read_header(len) ==
  IF len < HEADER_UNPACK_LEN
  THEN NoHeader
  ELSE [ok |-> TRUE, magic |-> magic, struct_size |-> struct_size,
        record_count |-> record_count,
        format_version |-> detect_version(magic)]

\* import_to_clickhouse.read_header: raises when fewer than 64 bytes
read_header_import(len) ==
  IF len < HEADER_SIZE
  THEN NoHeader
  ELSE [ok |-> TRUE, magic |-> magic, struct_size |-> struct_size,
        record_count |-> record_count,
        format_version |-> detect_version(magic)]

(***************************************************************************)
(* Record Codec: for each decoder, the record kind and generation whose    *)
(* layout it applies, the bytes it reads from the record's offset (size),  *)
(* the end of the last slice it hands to struct.unpack (unpack_end) and    *)
(* the end of the last slice it uses at all (decode_end).                  *)
(***************************************************************************)
\* read_mmap_v2.py
read_tick_v2 ==
  [name |-> "read_tick_v2", kind |-> "tick", gen |-> 2,
   size |-> SIZE_TICK_V2, unpack_end |-> 2128, decode_end |-> 2208]
read_order_v2 ==
  [name |-> "read_order_v2", kind |-> "order", gen |-> 2,
   size |-> SIZE_ORDER_V2, unpack_end |-> 80, decode_end |-> 128]
read_txn_v2 ==
  [name |-> "read_txn_v2", kind |-> "txn", gen |-> 2,
   size |-> SIZE_TRANSACTION_V2, unpack_end |-> 88, decode_end |-> 136]
read_snap_v2 ==
  [name |-> "read_snap_v2", kind |-> "snap", gen |-> 2,
   size |-> SIZE_SNAPSHOT_V2, unpack_end |-> 696, decode_end |-> 696]
read_tick_v1 ==
  [name |-> "read_tick_v1", kind |-> "tick", gen |-> 1,
   size |-> SIZE_TICK_V1, unpack_end |-> 128, decode_end |-> 128]
read_order_v1 ==
  [name |-> "read_order_v1", kind |-> "order", gen |-> 1,
   size |-> SIZE_ORDER_V1, unpack_end |-> 92, decode_end |-> 92]
read_txn_v1 ==
  [name |-> "read_txn_v1", kind |-> "txn", gen |-> 1,
   size |-> SIZE_TRANSACTION_V1, unpack_end |-> 104, decode_end |-> 104]

\* read_mmap.py (V1 layouts only)
read_tick_record ==
  [name |-> "read_tick_record", kind |-> "tick", gen |-> 1,
   size |-> SIZE_TICK_V1, unpack_end |-> 128, decode_end |-> 128]
read_order_record ==
  [name |-> "read_order_record", kind |-> "order", gen |-> 1,
   size |-> SIZE_ORDER_V1, unpack_end |-> 92, decode_end |-> 92]
read_txn_record ==
  [name |-> "read_txn_record", kind |-> "txn", gen |-> 1,
   size |-> SIZE_TRANSACTION_V1, unpack_end |-> 104, decode_end |-> 104]

\* batch_export_server.py: the inline V1 decoders of the three exporters
export_orders_batch ==
  [name |-> "export_orders_batch", kind |-> "order", gen |-> 1,
   size |-> SIZE_ORDER_V1, unpack_end |-> 120, decode_end |-> 120]
export_transactions_batch ==
  [name |-> "export_transactions_batch", kind |-> "txn", gen |-> 1,
   size |-> SIZE_TRANSACTION_V1, unpack_end |-> 124, decode_end |-> 124]
export_ticks_batch ==
  [name |-> "export_ticks_batch", kind |-> "tick", gen |-> 1,
   size |-> SIZE_TICK_V1, unpack_end |-> 592, decode_end |-> 592]

\* import_to_clickhouse.py: struct.unpack over the whole record
read_orders ==
  [name |-> "read_orders", kind |-> "order", gen |-> 1,
   size |-> SIZE_ORDER_V1, unpack_end |-> SIZE_ORDER_V1,
   decode_end |-> SIZE_ORDER_V1]
read_transactions ==
  [name |-> "read_transactions", kind |-> "txn", gen |-> 1,
   size |-> SIZE_TRANSACTION_V1, unpack_end |-> SIZE_TRANSACTION_V1,
   decode_end |-> SIZE_TRANSACTION_V1]

\* download_mmap_data_v2.py (remote script): the inline decoders, by version
export_orders(version) ==
  IF version = 2
  THEN [name |-> "export_orders", kind |-> "order", gen |-> 2,
        size |-> SIZE_ORDER_V2, unpack_end |-> 84, decode_end |-> 128]
  ELSE [name |-> "export_orders", kind |-> "order", gen |-> 1,
        size |-> SIZE_ORDER_V1, unpack_end |-> 120, decode_end |-> 120]
export_transactions(version) ==
  IF version = 2
  THEN [name |-> "export_transactions", kind |-> "txn", gen |-> 2,
        size |-> SIZE_TRANSACTION_V2, unpack_end |-> 92, decode_end |-> 136]
  ELSE [name |-> "export_transactions", kind |-> "txn", gen |-> 1,
        size |-> SIZE_TRANSACTION_V1, unpack_end |-> 124, decode_end |-> 124]
export_ticks(version) ==
  IF version = 2
  THEN [name |-> "export_ticks", kind |-> "tick", gen |-> 2,
        size |-> SIZE_TICK_V2, unpack_end |-> 2209, decode_end |-> 2209]
  ELSE [name |-> "export_ticks", kind |-> "tick", gen |-> 1,
        size |-> SIZE_TICK_V1, unpack_end |-> 592, decode_end |-> 592]

NoDecoder ==
  [name |-> "none", kind |-> "none", gen |-> 0, size |-> 0,
   unpack_end |-> 0, decode_end |-> 0]

\* get_symbol_from_record_v2 / get_symbol_from_record_v1: where the 40-byte
\* symbol field is looked for inside the record
symbol_offset(fv, dt) ==
  IF fv = 2
  THEN CASE dt = "tick" -> 2168
         [] dt = "order" -> 88
         [] dt = "txn" -> 96
         [] dt = "snap" -> 648
  ELSE 0

(***************************************************************************)
(* Dispatch: the record size and decoder each tool applies to a file.      *)
(* A configuration is [outcome, record_size, read_func]; outcome "ok"      *)
(* lets the scan start, "rejected" is a reported format error.             *)
(***************************************************************************)
Config(size, rf) == [outcome |-> "ok", record_size |-> size, read_func |-> rf]
Rejected == [outcome |-> "rejected", record_size |-> 0, read_func |-> NoDecoder]

\* read_mmap_v2.main: file_configs[dtype][format_version]
file_configs_v2(dt, fv) ==
  CASE dt = "tick" /\ fv = 1 -> Config(SIZE_TICK_V1, read_tick_v1)
    [] dt = "tick" /\ fv = 2 -> Config(SIZE_TICK_V2, read_tick_v2)
    [] dt = "order" /\ fv = 1 -> Config(SIZE_ORDER_V1, read_order_v1)
    [] dt = "order" /\ fv = 2 -> Config(SIZE_ORDER_V2, read_order_v2)
    [] dt = "txn" /\ fv = 1 -> Config(SIZE_TRANSACTION_V1, read_txn_v1)
    [] dt = "txn" /\ fv = 2 -> Config(SIZE_TRANSACTION_V2, read_txn_v2)
    [] dt = "snap" /\ fv = 1 -> Config(SIZE_SNAPSHOT_V1, read_tick_v1)
    [] dt = "snap" /\ fv = 2 -> Config(SIZE_SNAPSHOT_V2, read_snap_v2)

\* read_mmap_v2.main: the version check before the table lookup
main_v2(dt, h) ==
  IF h.format_version = 0 THEN Rejected
  ELSE file_configs_v2(dt, h.format_version)

\* read_mmap.main: file_configs[dtype], the header is not consulted
main_v1(dt, h) ==
  CASE dt = "tick" -> Config(SIZE_TICK_V1, read_tick_record)
    [] dt = "order" -> Config(SIZE_ORDER_V1, read_order_record)
    [] dt = "txn" -> Config(SIZE_TRANSACTION_V1, read_txn_record)

\* batch_export_server.main: one exporter per file name, the header is
\* consulted for record_count only
main_batch(dt, h) ==
  CASE dt = "order" -> Config(SIZE_ORDER_V1, export_orders_batch)
    [] dt = "txn" -> Config(SIZE_TRANSACTION_V1, export_transactions_batch)
    [] dt = "tick" -> Config(SIZE_TICK_V1, export_ticks_batch)

\* import_to_clickhouse.read_orders / read_transactions: magic and
\* struct_size are checked, a mismatch raises ValueError
main_import(dt, h) ==
  CASE dt = "order" ->
         IF h.magic # MAGIC_ORDER_V1 THEN Rejected
         ELSE IF h.struct_size # SIZE_ORDER_V1 THEN Rejected
         ELSE Config(SIZE_ORDER_V1, read_orders)
    [] dt = "txn" ->
         IF h.magic # MAGIC_TRANSACTION_V1 THEN Rejected
         ELSE IF h.struct_size # SIZE_TRANSACTION_V1 THEN Rejected
         ELSE Config(SIZE_TRANSACTION_V1, read_transactions)

\* download_mmap_data_v2 export_orders / export_transactions / export_ticks:
\* version from the magic, size and layout from the version
main_export(dt, h) ==
  LET version == detect_version_export(h.magic) IN
  IF version = 0 THEN Rejected
  ELSE CASE dt = "order" ->
              Config(IF version = 2 THEN SIZE_ORDER_V2 ELSE SIZE_ORDER_V1,
                     export_orders(version))
         [] dt = "txn" ->
              Config(IF version = 2 THEN SIZE_TRANSACTION_V2
                     ELSE SIZE_TRANSACTION_V1,
                     export_transactions(version))
         [] dt = "tick" ->
              Config(IF version = 2 THEN SIZE_TICK_V2 ELSE SIZE_TICK_V1,
                     export_ticks(version))

(***************************************************************************)
(* Pieces of the scan loops.                                               *)
(***************************************************************************)
\* faulty variants of scan_bound: a loop bound one too large, one too small
scan_bound_plus_one(h) == h.record_count + 1
scan_bound_minus_one(h) == h.record_count - 1

\* for i in range(header['record_count']) / range(total_records)
scan_bound(h) == h.record_count

\* faulty variant of tail_start: the start index is not clamped at 0
tail_start_unclamped(rc, cnt) == rc - cnt

\* read_tail_records: start_idx = max(0, header['record_count'] - count)
tail_start(rc, cnt) == Max(0, rc - cnt)

\* search_symbol: skip_count = (page - 1) * page_size
skip_count(pg, ps) == (pg - 1) * ps

\* faulty variant of page_skips: one match too many is skipped
page_skips_inclusive(skp, pg, ps) == skp <= skip_count(pg, ps)

\* search_symbol: if skipped < skip_count: skipped += 1; continue
page_skips(skp, pg, ps) == skp < skip_count(pg, ps)

\* search_symbol: if len(results) < page_size
page_takes(n, ps) == n < ps

\* faulty variant of count_match: a match is counted only once the skipping is over
count_match_after_skip(fnd, hit, skip) ==
  IF hit /\ ~skip THEN fnd + 1 ELSE fnd

\* search_symbol: if target_bytes in symbol: found += 1 (before the page
\* is looked at)
count_match(fnd, hit, skip) == IF hit THEN fnd + 1 ELSE fnd

\* the numeric fields of a record whose content plays no part (k-th of its
\* file), and of a zero-filled slot
PlainRec(k) ==
  [mdtime |-> 0, applseqnum |-> k, channelno |-> 1, orderno |-> k,
   tradebuyno |-> k, tradesellno |-> k, tradeprice |-> k, trademoney |-> k,
   lastpx |-> k, openpx |-> k, highpx |-> k, lowpx |-> k]
ZeroRec ==
  [mdtime |-> 0, applseqnum |-> 0, channelno |-> 0, orderno |-> 0,
   tradebuyno |-> 0, tradesellno |-> 0, tradeprice |-> 0, trademoney |-> 0,
   lastpx |-> 0, openpx |-> 0, highpx |-> 0, lowpx |-> 0]
PlainRecs(n) == [k \in 1..n |-> PlainRec(k)]

\* the numeric fields a reader finds in record slot k of the mapping
SlotRec(k) == IF (k + 1) \in DOMAIN recs THEN recs[k + 1] ELSE ZeroRec

\* the symbol a reader finds in record slot k of the mapping; slots behind
\* the last stored record are the zero-filled pre-extended region
SlotSymbol(k) == IF (k + 1) \in DOMAIN stored THEN stored[k + 1] ELSE << >>

\* mm.seek(at); mm.read(n): the number of bytes returned
read_len(at, n) == Min(n, Max(0, mapLen - at))

\* faulty variant of matched_sym: the last matching target wins, not the first
matched_sym_last(order, sym) ==
  LET hits == {k \in 1..Len(order) : Contains(order[k], sym)} IN
  IF hits = {} THEN << >>
  ELSE order[CHOOSE k \in hits : \A j \in hits : k >= j]

\* batch exporters: for target in symbols_bytes: if target in sym: ... break
\* (order is the iteration order of the set; << >> stands for None)
matched_sym(order, sym) ==
  LET hits == {k \in 1..Len(order) : Contains(order[k], sym)} IN
  IF hits = {} THEN << >>
  ELSE order[CHOOSE k \in hits : \A j \in hits : k <= j]

\* batch_export_server.main: end_time = int(sys.argv[4]) * 1000 when the
\* argument is given, else None (argv4 is << >> or <<HHMMSS>>)
None == [none |-> TRUE, value |-> 0]
main_end_time(argv4) ==
  IF argv4 = << >> THEN None
  ELSE [none |-> FALSE, value |-> argv4[1] * 1000]

\* Python truth value of end_time: None and 0 are false
truthy(et) == ~et.none /\ et.value # 0

\* batch exporters: if end_time and mdtime >= end_time: continue
time_filtered(et, mdtime) == truthy(et) /\ mdtime >= et.value

\* where the exporters unpack mddate, mdtime from: data[40:48]
MDTIME_END == 48

\* faulty variant of cond_present: zero counts as present
cond_present_nonneg(v) == v >= 0

\* batch exporters: if orderno > 0 / tradebuyno > 0 / ... : line += ...
cond_present(v) == v > 0

Opt(key, v) == IF cond_present(v) THEN <<key>> ELSE << >>
Rep(key, n) == [k \in 1..n |-> key]

\* the keys of the line export_orders_batch writes for a record
order_line(r) ==
  <<"HTSCSecurityID", "MDDate", "MDTime", "securityIDSource",
    "securityType", "OrderIndex">>
  \o Opt("OrderNO", r.orderno)
  \o <<"OrderType", "OrderPrice", "OrderQty", "OrderBSFlag", "ChannelNo",
       "ApplSeqNum", "DataMultiplePowerOf10">>

\* the keys of the line export_transactions_batch writes for a record
txn_line(r) ==
  <<"HTSCSecurityID", "MDDate", "MDTime", "securityIDSource",
    "securityType", "TradeIndex">>
  \o Opt("TradeBuyNo", r.tradebuyno)
  \o Opt("TradeSellNo", r.tradesellno)
  \o <<"TradeType", "TradeBSFlag">>
  \o Opt("TradePrice", r.tradeprice)
  \o <<"TradeQty">>
  \o Opt("TradeMoney", r.trademoney)
  \o <<"ApplSeqNum", "ChannelNo", "DataMultiplePowerOf10">>

\* the keys of the line export_ticks_batch writes for a record
tick_line(r) ==
  <<"HTSCSecurityID", "MDDate", "MDTime", "TradingPhaseCode",
    "securityIDSource", "securityType", "MaxPx", "MinPx", "PreClosePx">>
  \o Opt("LastPx", r.lastpx) \o Opt("OpenPx", r.openpx)
  \o Opt("HighPx", r.highpx) \o Opt("LowPx", r.lowpx)
  \o <<"ChannelNo">>
  \o Rep("BuyPriceQueue", 10) \o Rep("BuyOrderQtyQueue", 10)
  \o Rep("SellPriceQueue", 10) \o Rep("SellOrderQtyQueue", 10)
  \o Rep("BuyNumOrdersQueue", 10) \o Rep("SellNumOrdersQueue", 10)
  \o <<"DataMultiplePowerOf10">>

export_line(dt, r) ==
  CASE dt = "order" -> order_line(r)
    [] dt = "txn" -> txn_line(r)
    [] dt = "tick" -> tick_line(r)

\* faulty variant of range_stop: the live header count is re-read at every iteration
range_stop_live(captured, live) == live

\* the stop of the loop's range object: evaluated once, when the loop is
\* entered, from the count captured then; the live header is not re-read
range_stop(captured, live) == captured

\* the exit of a loop body that moved on to index n
after(n) ==
  IF n < range_stop(total_records, record_count) THEN "scan" ELSE "done"

(***************************************************************************)
(* Opening: map the file, read the header, pick size and decoder.          *)
(***************************************************************************)
\* faulty variant of open_rb: open(filepath, 'w+b') truncates the file
open_wb ==
  /\ fileSize' = 0
  /\ UNCHANGED <<magic, struct_size, record_count, stored, recs>>

\* with open(filepath, 'rb') as f:
\*     mm = mmap.mmap(f.fileno(), 0, access=mmap.ACCESS_READ)
\* the file is opened for reading and mapped read-only: neither call
\* creates, truncates or extends it
open_rb == UNCHANGED fileVars

Enter(h, fv, cfg, start) ==
  /\ header' = h
  /\ mapLen' = fileSize
  /\ format_version' = fv
  /\ record_size' = cfg.record_size
  /\ read_func' = cfg.read_func
  /\ total_records' = scan_bound(h)
  /\ i' = start
  /\ pc' = IF start < scan_bound(h) THEN "scan" ELSE "done"
  /\ UNCHANGED <<results, found, skipped, counts, files>>

Leave(h, outcome) ==
  /\ header' = h
  /\ pc' = outcome
  /\ UNCHANGED <<mapLen, format_version, record_size, read_func,
                 total_records, i, results, found, skipped, counts, files>>

\* read_mmap_v2.main (search and --tail modes) with search_symbol /
\* read_tail_records up to the loop
MainV2 ==
  /\ pc = "start"
  /\ tool \in {"search_v2", "tail_v2"}
  /\ LET h == read_header(fileSize)
         cfg == main_v2(dtype, h)
     IN IF ~h.ok THEN Leave(h, "error")
        ELSE IF cfg.outcome # "ok" THEN Leave(h, "rejected")
        ELSE Enter(h, h.format_version, cfg,
                   IF tool = "tail_v2" THEN tail_start(h.record_count, count)
                   ELSE 0)
  /\ open_rb
  /\ UNCHANGED <<writerVars, callVars, probeVars, extVars>>

\* read_mmap.main with search_symbol / read_tail_records up to the loop
MainV1 ==
  /\ pc = "start"
  /\ tool \in {"search_v1", "tail_v1"}
  /\ LET h == read_header(fileSize)
         cfg == main_v1(dtype, h)
     IN IF ~h.ok THEN Leave(h, "error")
        ELSE Enter(h, 1, cfg,
                   IF tool = "tail_v1" THEN tail_start(h.record_count, count)
                   ELSE 0)
  /\ open_rb
  /\ UNCHANGED <<writerVars, callVars, probeVars, extVars>>

\* export_orders_batch / export_transactions_batch / export_ticks_batch up
\* to the loop
BatchOpen ==
  /\ pc = "start"
  /\ tool = "batch"
  /\ LET h == read_header(fileSize)
         cfg == main_batch(dtype, h)
     IN IF ~h.ok THEN Leave(h, "error")
        ELSE Enter(h, 1, cfg, 0)
  /\ open_rb
  /\ UNCHANGED <<writerVars, callVars, probeVars, extVars>>

\* import_to_clickhouse.read_orders / read_transactions up to the loop
ImportOpen ==
  /\ pc = "start"
  /\ tool = "import"
  /\ LET h == read_header_import(fileSize)
         cfg == main_import(dtype, h)
     IN IF ~h.ok THEN Leave(h, "rejected")
        ELSE IF cfg.outcome # "ok" THEN Leave(h, "rejected")
        ELSE Enter(h, 1, cfg, 0)
  /\ open_rb
  /\ UNCHANGED <<writerVars, callVars, probeVars, extVars>>

\* download_mmap_data_v2 export_orders / export_transactions / export_ticks
\* up to the loop
ExportOpen ==
  /\ pc = "start"
  /\ tool = "export_v2"
  /\ LET h == read_header(fileSize)
         cfg == main_export(dtype, h)
     IN IF ~h.ok THEN Leave(h, "error")
        ELSE IF cfg.outcome # "ok" THEN Leave(h, "rejected")
        ELSE Enter(h, detect_version_export(h.magic), cfg, 0)
  /\ open_rb
  /\ UNCHANGED <<writerVars, callVars, probeVars, extVars>>

(***************************************************************************)
(* Loop bodies, one record index per step.                                 *)
(***************************************************************************)
\* search_symbol (read_mmap_v2.py and read_mmap.py): one iteration
SearchStep ==
  /\ pc = "scan"
  /\ tool \in {"search_v2", "search_v1"}
  /\ LET recAt == HEADER_SIZE + i * record_size
         symAt == recAt + symbol_offset(format_version, dtype)
         got == read_len(symAt, SYMBOL_LEN)
         symbol == Take(SlotSymbol(i), got)
         hit == Contains(target, symbol)
         skip == hit /\ page_skips(skipped, page, page_size)
         take == hit /\ ~skip /\ page_takes(Len(results), page_size)
         have == read_len(recAt, read_func.size)
         crash == take /\ have < read_func.unpack_end
     IN /\ found' = count_match(found, hit, skip)
        /\ skipped' = IF skip THEN skipped + 1 ELSE skipped
        /\ results' = IF take /\ ~crash THEN Append(results, i) ELSE results
        /\ pc' = IF crash THEN "error" ELSE after(i + 1)
        /\ decodedHi' =
             Max(decodedHi,
                 Max(IF got > 0 THEN symAt + got ELSE 0,
                     IF take THEN recAt + Min(have, read_func.decode_end)
                     ELSE 0))
  /\ i' = i + 1
  /\ total_records' = range_stop(total_records, record_count)
  /\ readIdx' = readIdx \cup {i}
  /\ nread' = nread + 1
  /\ UNCHANGED <<header, mapLen, format_version, record_size, read_func,
                 counts, files>>
  /\ UNCHANGED <<fileVars, writerVars, callVars, extVars>>

\* read_tail_records (read_mmap_v2.py and read_mmap.py): one iteration
TailStep ==
  /\ pc = "scan"
  /\ tool \in {"tail_v2", "tail_v1"}
  /\ LET recAt == HEADER_SIZE + i * record_size
         have == read_len(recAt, read_func.size)
         crash == have < read_func.unpack_end
     IN /\ results' = IF crash THEN results ELSE Append(results, i)
        /\ pc' = IF crash THEN "error" ELSE after(i + 1)
        /\ decodedHi' = Max(decodedHi, recAt + Min(have, read_func.decode_end))
  /\ i' = i + 1
  /\ total_records' = range_stop(total_records, record_count)
  /\ readIdx' = readIdx \cup {i}
  /\ nread' = nread + 1
  /\ UNCHANGED <<header, mapLen, format_version, record_size, read_func,
                 found, skipped, counts, files>>
  /\ UNCHANGED <<fileVars, writerVars, callVars, extVars>>

\* faulty variant of file_write: the line is put before the lines already
\* written
file_write_front(stream, line) == <<line>> \o stream

\* files[matched_sym].write(line + '\n') on a stream opened with
\* open(output_path, 'w'): the line goes to the end of the stream
file_write(stream, line) == Append(stream, line)

\* export_orders_batch / export_transactions_batch / export_ticks_batch:
\* one iteration
BatchStep ==
  /\ pc = "scan"
  /\ tool = "batch"
  /\ LET recAt == HEADER_SIZE + i * record_size
         have == read_len(recAt, read_func.size)
         sym == Take(SlotSymbol(i), Min(have, SYMBOL_LEN))
         m == matched_sym(symbols_bytes, sym)
         r == SlotRec(i)
         dropped == m # << >> /\ have >= MDTIME_END
                    /\ time_filtered(end_time, r.mdtime)
         crash == /\ m # << >>
                  /\ \/ have < MDTIME_END
                     \/ ~dropped /\ have < read_func.unpack_end
         write == m # << >> /\ ~dropped /\ ~crash
         used == IF m = << >> THEN SYMBOL_LEN
                 ELSE IF dropped THEN MDTIME_END
                 ELSE read_func.decode_end
     IN /\ files' = IF write THEN [files EXCEPT ![m] = file_write(@, i)]
                    ELSE files
        /\ lines' = IF write
                    THEN [lines EXCEPT
                            ![m] = file_write(@, export_line(dtype, r))]
                    ELSE lines
        /\ decodedSyms' =
             IF write
             THEN Append(decodedSyms,
                         [idx |-> i, str |-> decode(sym, "ignore").str])
             ELSE decodedSyms
        /\ counts' = IF write THEN [counts EXCEPT ![m] = @ + 1] ELSE counts
        /\ pc' = IF crash THEN "error" ELSE after(i + 1)
        /\ decodedHi' = Max(decodedHi, recAt + Min(have, used))
  /\ i' = i + 1
  /\ total_records' = range_stop(total_records, record_count)
  /\ readIdx' = readIdx \cup {i}
  /\ nread' = nread + 1
  /\ UNCHANGED <<header, mapLen, format_version, record_size, read_func,
                 results, found, skipped>>
  /\ UNCHANGED <<fileVars, writerVars, callVars, valVars, runVars>>

\* import_to_clickhouse.read_orders / read_transactions: one iteration
\* (a short read ends the loop)
ImportStep ==
  /\ pc = "scan"
  /\ tool = "import"
  /\ LET recAt == HEADER_SIZE + i * record_size
         have == read_len(recAt, read_func.size)
         short == have < read_func.size
     IN /\ results' = IF short THEN results ELSE Append(results, i)
        /\ decodedSyms' =
             IF short THEN decodedSyms
             ELSE Append(decodedSyms,
                         [idx |-> i,
                          str |-> decode(SlotSymbol(i), "replace").str])
        /\ pc' = IF short THEN "done" ELSE after(i + 1)
        /\ decodedHi' = IF short THEN decodedHi
                        ELSE Max(decodedHi, recAt + read_func.decode_end)
        /\ readIdx' = IF short THEN readIdx ELSE readIdx \cup {i}
  /\ i' = i + 1
  /\ total_records' = range_stop(total_records, record_count)
  /\ nread' = nread + 1
  /\ UNCHANGED <<header, mapLen, format_version, record_size, read_func,
                 found, skipped, counts, files, lines>>
  /\ UNCHANGED <<fileVars, writerVars, callVars, valVars, runVars>>

\* download_mmap_data_v2 export_orders / export_transactions / export_ticks:
\* one iteration (every field is decoded before the symbol is compared)
ExportStep ==
  /\ pc = "scan"
  /\ tool = "export_v2"
  /\ LET recAt == HEADER_SIZE + i * record_size
         have == read_len(recAt, read_func.size)
         crash == have < read_func.unpack_end
         sym == Take(SlotSymbol(i),
                     Min(SYMBOL_LEN, have - symbol_offset(format_version, dtype)))
         hit == ~crash /\ Contains(target, sym)
     IN /\ results' = IF hit THEN Append(results, i) ELSE results
        /\ decodedSyms' =
             IF hit
             THEN Append(decodedSyms,
                         [idx |-> i, str |-> decode(sym, "ignore").str])
             ELSE decodedSyms
        /\ found' = IF hit THEN found + 1 ELSE found
        /\ pc' = IF crash THEN "error" ELSE after(i + 1)
        /\ decodedHi' = Max(decodedHi, recAt + Min(have, read_func.decode_end))
  /\ i' = i + 1
  /\ total_records' = range_stop(total_records, record_count)
  /\ readIdx' = readIdx \cup {i}
  /\ nread' = nread + 1
  /\ UNCHANGED <<header, mapLen, format_version, record_size, read_func,
                 skipped, counts, files, lines>>
  /\ UNCHANGED <<fileVars, writerVars, callVars, valVars, runVars>>

(***************************************************************************)
(* The engine (external writer): it writes all bytes of the next record    *)
(* and only then increments record_count in the header.                    *)
(***************************************************************************)
\* symbols as the engine stores them: a code with its exchange suffix
\* ("60.", "06.", "00.") or a bare code ("60")
StoredSymbols ==
  { <<"6", "0", ".">>, <<"0", "6", ".">>, <<"0", "0", ".">>, <<"6", "0">> }

\* target symbols as the tools receive them (bare codes, one of them a
\* substring of the others)
Targets == { <<"6", "0">>, <<"0", "6">>, <<"6">> }

WriterWrite ==
  /\ appended < MaxAppend
  /\ wbytes < struct_size
  /\ wbytes' = IF wbytes = 0 THEN struct_size \div 2 ELSE struct_size
  /\ fileSize' = Max(fileSize,
                     HEADER_SIZE + record_count * struct_size + wbytes')
  /\ IF wbytes' = struct_size
     THEN /\ \E sym \in StoredSymbols : stored' = Append(stored, sym)
          /\ recs' = Append(recs, PlainRec(Len(recs) + 1))
     ELSE UNCHANGED <<stored, recs>>
  /\ UNCHANGED <<magic, struct_size, record_count, appended>>
  /\ UNCHANGED <<callVars, readerVars, probeVars, extVars>>

WriterPublish ==
  /\ wbytes = struct_size
  /\ record_count' = record_count + 1
  /\ wbytes' = 0
  /\ appended' = appended + 1
  /\ UNCHANGED <<magic, struct_size, fileSize, stored, recs>>
  /\ UNCHANGED <<callVars, readerVars, probeVars, extVars>>

\* records whose bytes are all written
Completed == record_count + (IF wbytes = struct_size THEN 1 ELSE 0)

(***************************************************************************)
(* Sequence Validator (the script analyze_channel_timing.py runs on the    *)
(* data host).                                                             *)
(***************************************************************************)
\* analyze_order_timing(filepath, max_records=500000)
MAX_RECORDS_DEFAULT == 500000
\* if len(records) < 10: continue
MIN_CHANNEL_RECORDS == 10

Channels == {1, 2}

\* the inline decoders: mdtime data[44:48], applseqnum data[112:120],
\* channelno data[92:96] (order) or data[120:124] (transaction)
analyze_order_timing ==
  [name |-> "analyze_order_timing", kind |-> "order", gen |-> 1,
   size |-> SIZE_ORDER_V1, unpack_end |-> 120, decode_end |-> 120]
analyze_transaction_timing ==
  [name |-> "analyze_transaction_timing", kind |-> "txn", gen |-> 1,
   size |-> SIZE_TRANSACTION_V1, unpack_end |-> 124, decode_end |-> 124]

\* the validator's __main__: one analysis per file name
main_validate(dt, h) ==
  CASE dt = "order" -> Config(SIZE_ORDER_V1, analyze_order_timing)
    [] dt = "txn" -> Config(SIZE_TRANSACTION_V1, analyze_transaction_timing)

\* count = min(max_records, header['record_count'])
load_count(cap, h) == Min(cap, h.record_count)

\* the violation loop over one channel's list, as the code runs it: state
\* is [seq_violations, time_violations, prev_seq, prev_time]
RECURSIVE check_channel(_, _, _)
check_channel(records, k, st) ==
  IF k > Len(records) THEN st
  ELSE LET mdtime == records[k].mdtime
           seq == records[k].applseqnum
       IN check_channel(records, k + 1,
            [seq_violations |->
               IF st.prev_seq >= 0 /\ seq <= st.prev_seq
               THEN st.seq_violations + 1 ELSE st.seq_violations,
             time_violations |->
               IF st.prev_time >= 0 /\ mdtime < st.prev_time
               THEN st.time_violations + 1 ELSE st.time_violations,
             prev_seq |-> seq,
             prev_time |-> mdtime])

\* analyze_order_timing / analyze_transaction_timing up to the load loop
ValOpen ==
  /\ pc = "start"
  /\ tool = "validate"
  /\ LET h == read_header(fileSize)
         cfg == main_validate(dtype, h)
     IN IF ~h.ok THEN Leave(h, "error")
        ELSE /\ header' = h
             /\ mapLen' = fileSize
             /\ format_version' = 1
             /\ record_size' = cfg.record_size
             /\ read_func' = cfg.read_func
             /\ total_records' = load_count(max_records, h)
             /\ i' = 0
             /\ pc' = IF 0 < load_count(max_records, h) THEN "load"
                      ELSE "check"
             /\ UNCHANGED <<results, found, skipped, counts, files>>
  /\ open_rb
  /\ UNCHANGED <<writerVars, callVars, probeVars, extVars>>

\* the load loop: one iteration
\* (channel_data[channelno].append((mdtime, applseqnum, sym, i)))
ValLoad ==
  /\ pc = "load"
  /\ tool = "validate"
  /\ LET recAt == HEADER_SIZE + i * record_size
         have == read_len(recAt, read_func.size)
         crash == have < read_func.unpack_end
         r == SlotRec(i)
     IN /\ channel_data' =
             IF crash THEN channel_data
             ELSE [channel_data EXCEPT ![r.channelno] =
                     Append(@, [mdtime |-> r.mdtime,
                                applseqnum |-> r.applseqnum, idx |-> i])]
        /\ decodedSyms' =
             IF crash THEN decodedSyms
             ELSE Append(decodedSyms,
                         [idx |-> i,
                          str |-> decode(Take(SlotSymbol(i), SYMBOL_LEN),
                                         "ignore").str])
        /\ pc' = IF crash THEN "error"
                 ELSE IF i + 1 < total_records THEN "load" ELSE "check"
        /\ decodedHi' = Max(decodedHi, recAt + Min(have, read_func.decode_end))
  /\ i' = i + 1
  /\ readIdx' = readIdx \cup {i}
  /\ nread' = nread + 1
  /\ UNCHANGED <<header, mapLen, format_version, record_size, read_func,
                 total_records, results, found, skipped, counts, files>>
  /\ UNCHANGED <<max_records, checked, report, lines, runVars>>
  /\ UNCHANGED <<fileVars, writerVars, callVars>>

\* the keys of channel_data (a defaultdict: a key exists once appended to)
channel_keys == { c \in Channels : channel_data[c] # << >> }

\* for ch in sorted(channel_data.keys()): one iteration
ValCheck ==
  /\ pc = "check"
  /\ tool = "validate"
  /\ IF channel_keys \ checked = {}
     THEN /\ pc' = "done"
          /\ UNCHANGED <<checked, report>>
     ELSE LET ch == CHOOSE c \in channel_keys \ checked :
                      \A d \in channel_keys \ checked : c <= d
              records == channel_data[ch]
              st == check_channel(records, 1,
                      [seq_violations |-> 0, time_violations |-> 0,
                       prev_seq |-> -1, prev_time |-> -1])
          IN /\ checked' = checked \cup {ch}
             /\ report' =
                  IF Len(records) < MIN_CHANNEL_RECORDS THEN report
                  ELSE report @@
                       (ch :> [seq_violations |-> st.seq_violations,
                               time_violations |-> st.time_violations])
             /\ pc' = pc
  /\ UNCHANGED <<header, mapLen, format_version, record_size, read_func,
                 total_records, i, results, found, skipped, counts, files>>
  /\ UNCHANGED <<max_records, channel_data, outVars, runVars>>
  /\ UNCHANGED <<fileVars, writerVars, callVars, probeVars>>

(***************************************************************************)
(* Snapshot reader (the script read_snapshot.py runs on the data host).    *)
(***************************************************************************)
\* read_snapshot: the V1 snapshot layout, unpacked up to data[724:728]
read_snapshot ==
  [name |-> "read_snapshot", kind |-> "snap", gen |-> 1,
   size |-> SIZE_SNAPSHOT_V1, unpack_end |-> SIZE_SNAPSHOT_V1,
   decode_end |-> SIZE_SNAPSHOT_V1]

\* main of the remote script up to the loop: neither magic nor struct_size
\* is looked at
SnapOpen ==
  /\ pc = "start"
  /\ tool = "snapshot"
  /\ LET h == read_header(fileSize)
     IN IF ~h.ok THEN Leave(h, "error")
        ELSE Enter(h, 1, Config(SIZE_SNAPSHOT_V1, read_snapshot), 0)
  /\ open_rb
  /\ UNCHANGED <<writerVars, callVars, probeVars, extVars>>

\* main of the remote script: one iteration
\* (sym_bytes.decode('utf-8'), then read_snapshot for a match)
SnapStep ==
  /\ pc = "scan"
  /\ tool = "snapshot"
  /\ LET recAt == HEADER_SIZE + i * record_size
         got == read_len(recAt, SYMBOL_LEN)
         sym_str == decode(Take(SlotSymbol(i), got), "strict")
         hit == sym_str.ok /\ Contains(target, sym_str.str)
         have == read_len(recAt, read_func.size)
         crash == ~sym_str.ok \/ (hit /\ have < read_func.unpack_end)
     IN /\ results' = IF hit /\ ~crash THEN Append(results, i) ELSE results
        /\ decodedSyms' =
             IF sym_str.ok
             THEN Append(decodedSyms, [idx |-> i, str |-> sym_str.str])
             ELSE decodedSyms
        /\ pc' = IF crash THEN "error" ELSE after(i + 1)
        /\ decodedHi' =
             Max(decodedHi,
                 IF hit THEN recAt + Min(have, read_func.decode_end)
                 ELSE recAt + got)
  /\ i' = i + 1
  /\ total_records' = range_stop(total_records, record_count)
  /\ readIdx' = readIdx \cup {i}
  /\ nread' = nread + 1
  /\ UNCHANGED <<header, mapLen, format_version, record_size, read_func,
                 found, skipped, counts, files, lines>>
  /\ UNCHANGED <<fileVars, writerVars, callVars, valVars, runVars>>

(***************************************************************************)
(* TSV importer (import_mmap_to_clickhouse.py, V2 files only).             *)
(***************************************************************************)
\* parse_order_v2 / parse_transaction_v2 / parse_tick_v2: the last slice
\* struct.unpack (or an index) needs, and the last slice used at all
parse_order_v2 ==
  [name |-> "parse_order_v2", kind |-> "order", gen |-> 2,
   size |-> SIZE_ORDER_V2, unpack_end |-> 88, decode_end |-> SIZE_ORDER_V2]
parse_transaction_v2 ==
  [name |-> "parse_transaction_v2", kind |-> "txn", gen |-> 2,
   size |-> SIZE_TRANSACTION_V2, unpack_end |-> 96,
   decode_end |-> SIZE_TRANSACTION_V2]
parse_tick_v2 ==
  [name |-> "parse_tick_v2", kind |-> "tick", gen |-> 2,
   size |-> SIZE_TICK_V2, unpack_end |-> 2209, decode_end |-> 2209]

\* main's file_configs and export_to_tsv's magic check: a magic other than
\* the expected one ends the file with 0 records
main_tsv(dt, h) ==
  CASE dt = "order" ->
         IF h.magic # MAGIC_ORDER_V2 THEN Rejected
         ELSE Config(SIZE_ORDER_V2, parse_order_v2)
    [] dt = "txn" ->
         IF h.magic # MAGIC_TRANSACTION_V2 THEN Rejected
         ELSE Config(SIZE_TRANSACTION_V2, parse_transaction_v2)
    [] dt = "tick" ->
         IF h.magic # MAGIC_TICK_V2 THEN Rejected
         ELSE Config(SIZE_TICK_V2, parse_tick_v2)

\* export_to_tsv up to the loop (no --limit)
TsvOpen ==
  /\ pc = "start"
  /\ tool = "tsv"
  /\ LET h == read_header(fileSize)
         cfg == main_tsv(dtype, h)
     IN IF ~h.ok THEN Leave(h, "error")
        ELSE IF cfg.outcome # "ok" THEN Leave(h, "rejected")
        ELSE Enter(h, 2, cfg, 0)
  /\ open_rb
  /\ UNCHANGED <<writerVars, callVars, probeVars, extVars>>

\* export_to_tsv: one iteration (mm.seek past the end of the map raises
\* outside the try; a parse failure inside it is caught and the record is
\* skipped with a warning)
TsvStep ==
  /\ pc = "scan"
  /\ tool = "tsv"
  /\ LET recAt == HEADER_SIZE + i * record_size
         seekFails == recAt > mapLen
         have == read_len(recAt, read_func.size)
         failed == have < read_func.unpack_end
         sym == Take(SlotSymbol(i),
                     Min(SYMBOL_LEN, have - symbol_offset(2, dtype)))
     IN IF seekFails
        THEN /\ pc' = "error"
             /\ UNCHANGED <<results, decodedSyms, found, decodedHi, i,
                            total_records, readIdx, nread>>
        ELSE /\ results' = IF failed THEN results ELSE Append(results, i)
             /\ decodedSyms' =
                  IF failed THEN decodedSyms
                  ELSE Append(decodedSyms,
                              [idx |-> i, str |-> decode(sym, "ignore").str])
             /\ found' = IF failed THEN found ELSE found + 1
             /\ decodedHi' =
                  Max(decodedHi, recAt + Min(have, read_func.decode_end))
             /\ pc' = after(i + 1)
             /\ i' = i + 1
             /\ total_records' = range_stop(total_records, record_count)
             /\ readIdx' = readIdx \cup {i}
             /\ nread' = nread + 1
  /\ UNCHANGED <<header, mapLen, format_version, record_size, read_func,
                 skipped, counts, files, lines>>
  /\ UNCHANGED <<fileVars, writerVars, callVars, valVars, runVars>>

(***************************************************************************)
(* Record Codec at byte level.  A record is a sequence of bytes (0..255);  *)
(* an unpacked integer is kept as its eight little-endian two's-complement *)
(* bytes, a 32-bit one sign-extended, so that equal values have equal      *)
(* representations whatever the width they were read with.                 *)
(***************************************************************************)
\* data[a:b]
Slice(data, a, b) == SubSeq(data, a + 1, Min(b, Len(data)))

\* struct.unpack('<q', data[a:a+8])[0]
unpack_q(data, a) == Slice(data, a, a + 8)

\* struct.unpack('<i', data[a:a+4])[0]
unpack_i(data, a) ==
  Slice(data, a, a + 4)
  \o (IF data[a + 4] >= 128 THEN <<255, 255, 255, 255>> ELSE <<0, 0, 0, 0>>)

\* bytes.rstrip(b'\x00')
RECURSIVE rstrip(_)
rstrip(b) ==
  IF b = << >> THEN b
  ELSE IF b[Len(b)] # 0 THEN b
  ELSE rstrip(SubSeq(b, 1, Len(b) - 1))

\* b.split(b'\x00')[0], and b[:b.find(b'\x00')] when a NUL is found
split0(b) ==
  LET z == { k \in DOMAIN b : b[k] = 0 } IN
  IF z = {} THEN b
  ELSE SubSeq(b, 1, (CHOOSE k \in z : \A j \in z : k <= j) - 1)

\* bytes.decode('utf-8', errors='ignore' / 'replace') of ASCII bytes mixed
\* with bytes that start no valid sequence (0x80..0xFF standing alone)
decode_ignore(b) == SelectSeq(b, LAMBDA x : x < 128)
decode_replace(b) == [k \in DOMAIN b |-> IF b[k] < 128 THEN b[k] ELSE 65533]

\* import_mmap_to_clickhouse.escape_tsv of a string: backslash, tab and
\* newline are escaped
RECURSIVE escape_tsv(_)
escape_tsv(s) ==
  IF s = << >> THEN s
  ELSE (CASE s[1] = 92 -> <<92, 92>>
          [] s[1] = 9 -> <<92, 116>>
          [] s[1] = 10 -> <<92, 110>>
          [] OTHER -> <<s[1]>>)
       \o escape_tsv(Tail(s))

\* one field of a decoder: where its slice starts, how long it is and how
\* the slice is converted
F(at, len, conv) == [at |-> at, len |-> len, conv |-> conv]

\* a value the decoder sets to the literal 0 without reading the record
Literal0 == F(0, 0, "zero")

field(f, data) ==
  LET bytes == Slice(data, f.at, f.at + f.len) IN
  CASE f.conv = "q" -> unpack_q(data, f.at)
    [] f.conv = "i" -> unpack_i(data, f.at)
    [] f.conv = "zero" -> <<0, 0, 0, 0, 0, 0, 0, 0>>
    [] f.conv = "rstrip" -> rstrip(bytes)
    [] f.conv = "rstrip_ignore" -> decode_ignore(rstrip(bytes))
    [] f.conv = "split" -> split0(bytes)
    [] f.conv = "split_ignore" -> decode_ignore(split0(bytes))
    [] f.conv = "split_replace" -> decode_replace(split0(bytes))
    [] f.conv = "split_ignore_escape" ->
         escape_tsv(decode_ignore(split0(bytes)))

\* a decoder applied to the bytes of one record: the value of each of its
\* fields
unpack(tbl, data) == [k \in DOMAIN tbl |-> field(tbl[k], data)]

\* read_mmap_v2.py
read_tick_v2_fields ==
  [symbol |-> F(2168, 40, "rstrip"), date |-> F(2120, 4, "i"),
   time |-> F(2124, 4, "i"), local_recv_ts |-> F(0, 8, "q"),
   datatimestamp |-> F(8, 8, "q"), lastpx |-> F(64, 8, "q"),
   maxpx |-> F(16, 8, "q"), minpx |-> F(24, 8, "q"),
   preclosepx |-> F(32, 8, "q")]
read_order_v2_fields ==
  [symbol |-> F(88, 40, "rstrip"), date |-> F(56, 4, "i"),
   time |-> F(60, 4, "i"), local_recv_ts |-> F(0, 8, "q"),
   orderindex |-> F(8, 8, "q"), ordertype |-> F(72, 4, "i"),
   orderprice |-> F(16, 8, "q"), orderqty |-> F(24, 8, "q"),
   orderbsflag |-> F(76, 4, "i"), orderno |-> F(32, 8, "q"),
   applseqnum |-> F(48, 8, "q")]
read_txn_v2_fields ==
  [symbol |-> F(96, 40, "rstrip"), date |-> F(64, 4, "i"),
   time |-> F(68, 4, "i"), local_recv_ts |-> F(0, 8, "q"),
   tradeindex |-> F(8, 8, "q"), tradebuyno |-> F(16, 8, "q"),
   tradesellno |-> F(24, 8, "q"), tradetype |-> F(80, 4, "i"),
   tradebsflag |-> F(84, 4, "i"), tradeprice |-> F(32, 8, "q"),
   tradeqty |-> F(40, 8, "q"), applseqnum |-> F(56, 8, "q")]
read_snap_v2_fields ==
  [symbol |-> F(648, 40, "rstrip"), date |-> F(688, 4, "i"),
   time |-> F(692, 4, "i"), local_recv_ts |-> F(480, 8, "q"),
   datatimestamp |-> F(488, 8, "q"), lastpx |-> F(536, 8, "q")]
read_tick_v1_fields ==
  [symbol |-> F(0, 40, "rstrip"), date |-> F(40, 4, "i"),
   time |-> F(44, 4, "i"), local_recv_ts |-> Literal0,
   datatimestamp |-> Literal0, lastpx |-> F(120, 8, "q"),
   maxpx |-> F(72, 8, "q"), minpx |-> F(80, 8, "q"),
   preclosepx |-> F(88, 8, "q")]
read_order_v1_fields ==
  [symbol |-> F(0, 40, "rstrip"), date |-> F(40, 4, "i"),
   time |-> F(44, 4, "i"), local_recv_ts |-> Literal0,
   orderindex |-> F(56, 8, "q"), ordertype |-> F(64, 4, "i"),
   orderprice |-> F(72, 8, "q"), orderqty |-> F(80, 8, "q"),
   orderbsflag |-> F(88, 4, "i"), orderno |-> Literal0,
   applseqnum |-> F(56, 8, "q")]
read_txn_v1_fields ==
  [symbol |-> F(0, 40, "rstrip"), date |-> F(40, 4, "i"),
   time |-> F(44, 4, "i"), local_recv_ts |-> Literal0,
   tradeindex |-> F(56, 8, "q"), tradebuyno |-> F(64, 8, "q"),
   tradesellno |-> F(72, 8, "q"), tradetype |-> F(80, 4, "i"),
   tradebsflag |-> F(84, 4, "i"), tradeprice |-> F(88, 8, "q"),
   tradeqty |-> F(96, 8, "q"), applseqnum |-> F(56, 8, "q")]

\* read_mmap.py
read_order_record_fields ==
  [symbol |-> F(0, 40, "rstrip"), date |-> F(40, 4, "i"),
   time |-> F(44, 4, "i"), orderindex |-> F(56, 8, "q"),
   ordertype |-> F(64, 4, "i"), orderprice |-> F(72, 8, "q"),
   orderqty |-> F(80, 8, "q"), orderbsflag |-> F(88, 4, "i")]

\* batch_export_server.py export_orders_batch (the values its line carries)
export_orders_batch_fields ==
  [sym_str |-> F(0, 40, "rstrip_ignore"), mddate |-> F(40, 4, "i"),
   mdtime |-> F(44, 4, "i"), orderindex |-> F(56, 8, "q"),
   ordertype |-> F(64, 4, "i"), orderprice |-> F(72, 8, "q"),
   orderqty |-> F(80, 8, "q"), orderbsflag |-> F(88, 4, "i"),
   channelno |-> F(92, 4, "i"), orderno |-> F(96, 8, "q"),
   applseqnum |-> F(112, 8, "q")]

\* download_mmap_data.py (remote script) export_orders: same slices
single_export_orders_fields == export_orders_batch_fields

\* download_mmap_data_v2.py (remote script) export_orders and
\* export_transactions, by version
export_orders_fields(version) ==
  IF version = 2
  THEN [sym_str |-> F(88, 40, "split_ignore"), mddate |-> F(56, 4, "i"),
        mdtime |-> F(60, 4, "i"), local_recv_ts |-> F(0, 8, "q"),
        orderindex |-> F(8, 8, "q"), ordertype |-> F(72, 4, "i"),
        orderprice |-> F(16, 8, "q"), orderqty |-> F(24, 8, "q"),
        orderbsflag |-> F(76, 4, "i"), channelno |-> F(80, 4, "i"),
        orderno |-> F(32, 8, "q"), applseqnum |-> F(48, 8, "q")]
  ELSE [sym_str |-> F(0, 40, "split_ignore"), mddate |-> F(40, 4, "i"),
        mdtime |-> F(44, 4, "i"), local_recv_ts |-> Literal0,
        orderindex |-> F(56, 8, "q"), ordertype |-> F(64, 4, "i"),
        orderprice |-> F(72, 8, "q"), orderqty |-> F(80, 8, "q"),
        orderbsflag |-> F(88, 4, "i"), channelno |-> F(92, 4, "i"),
        orderno |-> F(96, 8, "q"), applseqnum |-> F(112, 8, "q")]
export_transactions_fields(version) ==
  IF version = 2
  THEN [sym_str |-> F(96, 40, "split_ignore"), mddate |-> F(64, 4, "i"),
        mdtime |-> F(68, 4, "i"), local_recv_ts |-> F(0, 8, "q"),
        tradeindex |-> F(8, 8, "q"), tradebuyno |-> F(16, 8, "q"),
        tradesellno |-> F(24, 8, "q"), tradetype |-> F(80, 4, "i"),
        tradebsflag |-> F(84, 4, "i"), tradeprice |-> F(32, 8, "q"),
        tradeqty |-> F(40, 8, "q"), trademoney |-> F(48, 8, "q"),
        applseqnum |-> F(56, 8, "q"), channelno |-> F(88, 4, "i")]
  ELSE [sym_str |-> F(0, 40, "split_ignore"), mddate |-> F(40, 4, "i"),
        mdtime |-> F(44, 4, "i"), local_recv_ts |-> Literal0,
        tradeindex |-> F(56, 8, "q"), tradebuyno |-> F(64, 8, "q"),
        tradesellno |-> F(72, 8, "q"), tradetype |-> F(80, 4, "i"),
        tradebsflag |-> F(84, 4, "i"), tradeprice |-> F(88, 8, "q"),
        tradeqty |-> F(96, 8, "q"), trademoney |-> F(104, 8, "q"),
        applseqnum |-> F(112, 8, "q"), channelno |-> F(120, 4, "i")]

\* import_to_clickhouse.py: ORDER_FORMAT / ORDER_FIELDS and TXN_FORMAT /
\* TXN_FIELDS ('<': no implicit padding), strings through decode_string
ORDER_FORMAT ==
  [htscsecurityid |-> F(0, 40, "split_replace"), mddate |-> F(40, 4, "i"),
   mdtime |-> F(44, 4, "i"), securityidsource |-> F(48, 4, "i"),
   securitytype |-> F(52, 4, "i"), orderindex |-> F(56, 8, "q"),
   ordertype |-> F(64, 4, "i"), orderprice |-> F(72, 8, "q"),
   orderqty |-> F(80, 8, "q"), orderbsflag |-> F(88, 4, "i"),
   channelno |-> F(92, 4, "i"), orderno |-> F(96, 8, "q"),
   tradedqty |-> F(104, 8, "q"), applseqnum |-> F(112, 8, "q"),
   datamultiplepowerof10 |-> F(120, 4, "i"),
   securitystatus |-> F(124, 16, "split_replace")]
TXN_FORMAT ==
  [htscsecurityid |-> F(0, 40, "split_replace"), mddate |-> F(40, 4, "i"),
   mdtime |-> F(44, 4, "i"), securityidsource |-> F(48, 4, "i"),
   securitytype |-> F(52, 4, "i"), tradeindex |-> F(56, 8, "q"),
   tradebuyno |-> F(64, 8, "q"), tradesellno |-> F(72, 8, "q"),
   tradetype |-> F(80, 4, "i"), tradebsflag |-> F(84, 4, "i"),
   tradeprice |-> F(88, 8, "q"), tradeqty |-> F(96, 8, "q"),
   trademoney |-> F(104, 8, "q"), applseqnum |-> F(112, 8, "q"),
   channelno |-> F(120, 4, "i"), datamultiplepowerof10 |-> F(124, 4, "i")]

\* import_mmap_to_clickhouse.py: the columns of the TSV line (str() of an
\* integer is one-to-one, the integer stands for its text)
parse_order_v2_fields ==
  [local_recv_timestamp |-> F(0, 8, "q"), orderindex |-> F(8, 8, "q"),
   orderprice |-> F(16, 8, "q"), orderqty |-> F(24, 8, "q"),
   orderno |-> F(32, 8, "q"), tradedqty |-> F(40, 8, "q"),
   applseqnum |-> F(48, 8, "q"), mddate |-> F(56, 4, "i"),
   mdtime |-> F(60, 4, "i"), securityidsource |-> F(64, 4, "i"),
   securitytype |-> F(68, 4, "i"), ordertype |-> F(72, 4, "i"),
   orderbsflag |-> F(76, 4, "i"), channelno |-> F(80, 4, "i"),
   datamultiplepowerof10 |-> F(84, 4, "i"),
   htscsecurityid |-> F(88, 40, "split_ignore_escape"),
   securitystatus |-> F(128, 16, "split_ignore_escape")]
parse_transaction_v2_fields ==
  [local_recv_timestamp |-> F(0, 8, "q"), tradeindex |-> F(8, 8, "q"),
   tradebuyno |-> F(16, 8, "q"), tradesellno |-> F(24, 8, "q"),
   tradeprice |-> F(32, 8, "q"), tradeqty |-> F(40, 8, "q"),
   trademoney |-> F(48, 8, "q"), applseqnum |-> F(56, 8, "q"),
   mddate |-> F(64, 4, "i"), mdtime |-> F(68, 4, "i"),
   securityidsource |-> F(72, 4, "i"), securitytype |-> F(76, 4, "i"),
   tradetype |-> F(80, 4, "i"), tradebsflag |-> F(84, 4, "i"),
   channelno |-> F(88, 4, "i"), datamultiplepowerof10 |-> F(92, 4, "i"),
   htscsecurityid |-> F(96, 40, "split_ignore_escape")]

\* verify_order_offset.py (remote script)
verify_order_offsets ==
  [sym |-> F(0, 40, "rstrip_ignore"), mddate |-> F(40, 4, "i"),
   mdtime |-> F(44, 4, "i"), securityidsource |-> F(48, 4, "i"),
   securitytype |-> F(52, 4, "i"), orderindex |-> F(56, 8, "q"),
   ordertype |-> F(64, 4, "i"), orderprice |-> F(72, 8, "q"),
   orderqty |-> F(80, 8, "q"), orderbsflag |-> F(88, 4, "i"),
   channelno |-> F(92, 4, "i"), orderno |-> F(96, 8, "q"),
   tradedqty |-> F(104, 8, "q"), applseqnum |-> F(112, 8, "q"),
   datamultipowerof10 |-> F(120, 4, "i"),
   securitystatus |-> F(124, 16, "rstrip")]
analyze_orders_correct_offset ==
  [sym |-> F(0, 40, "rstrip_ignore"), channelno |-> F(92, 4, "i")]

\* analyze_channel_no.py (remote script)
analyze_orders ==
  [sym |-> F(0, 40, "rstrip_ignore"), channelno |-> F(104, 4, "i")]

\* analyze_channel_timing.py (remote script): the tuple appended per record
analyze_order_timing_fields ==
  [sym |-> F(0, 40, "rstrip_ignore"), mdtime |-> F(44, 4, "i"),
   channelno |-> F(92, 4, "i"), applseqnum |-> F(112, 8, "q")]

\* every record decoder: the kind and generation whose records it is given,
\* their size, and its fields
Codec(id, kind, gen, size, fields) ==
  [id |-> id, kind |-> kind, gen |-> gen, size |-> size, fields |-> fields]
Codecs ==
  << Codec("read_mmap_v2.read_tick_v2", "tick", 2, SIZE_TICK_V2,
           read_tick_v2_fields),
     Codec("read_mmap_v2.read_order_v2", "order", 2, SIZE_ORDER_V2,
           read_order_v2_fields),
     Codec("read_mmap_v2.read_txn_v2", "txn", 2, SIZE_TRANSACTION_V2,
           read_txn_v2_fields),
     Codec("read_mmap_v2.read_snap_v2", "snap", 2, SIZE_SNAPSHOT_V2,
           read_snap_v2_fields),
     Codec("read_mmap_v2.read_tick_v1", "tick", 1, SIZE_TICK_V1,
           read_tick_v1_fields),
     Codec("read_mmap_v2.read_order_v1", "order", 1, SIZE_ORDER_V1,
           read_order_v1_fields),
     Codec("read_mmap_v2.read_txn_v1", "txn", 1, SIZE_TRANSACTION_V1,
           read_txn_v1_fields),
     Codec("read_mmap.read_order_record", "order", 1, SIZE_ORDER_V1,
           read_order_record_fields),
     Codec("batch_export_server.export_orders_batch", "order", 1,
           SIZE_ORDER_V1, export_orders_batch_fields),
     Codec("download_mmap_data.export_orders", "order", 1, SIZE_ORDER_V1,
           single_export_orders_fields),
     Codec("download_mmap_data_v2.export_orders.v1", "order", 1,
           SIZE_ORDER_V1, export_orders_fields(1)),
     Codec("download_mmap_data_v2.export_orders.v2", "order", 2,
           SIZE_ORDER_V2, export_orders_fields(2)),
     Codec("download_mmap_data_v2.export_transactions.v1", "txn", 1,
           SIZE_TRANSACTION_V1, export_transactions_fields(1)),
     Codec("download_mmap_data_v2.export_transactions.v2", "txn", 2,
           SIZE_TRANSACTION_V2, export_transactions_fields(2)),
     Codec("import_to_clickhouse.read_orders", "order", 1, SIZE_ORDER_V1,
           ORDER_FORMAT),
     Codec("import_to_clickhouse.read_transactions", "txn", 1,
           SIZE_TRANSACTION_V1, TXN_FORMAT),
     Codec("import_mmap_to_clickhouse.parse_order_v2", "order", 2,
           SIZE_ORDER_V2, parse_order_v2_fields),
     Codec("import_mmap_to_clickhouse.parse_transaction_v2", "txn", 2,
           SIZE_TRANSACTION_V2, parse_transaction_v2_fields),
     Codec("verify_order_offset.verify_order_offsets", "order", 1,
           SIZE_ORDER_V1, verify_order_offsets),
     Codec("verify_order_offset.analyze_orders_correct_offset", "order", 1,
           SIZE_ORDER_V1, analyze_orders_correct_offset),
     Codec("analyze_channel_no.analyze_orders", "order", 1, SIZE_ORDER_V1,
           analyze_orders),
     Codec("analyze_channel_timing.analyze_order_timing", "order", 1,
           SIZE_ORDER_V1, analyze_order_timing_fields) >>

CodecIds == { Codecs[n].id : n \in DOMAIN Codecs }
CodecOf(id) == Codecs[CHOOSE n \in DOMAIN Codecs : Codecs[n].id = id]

\* The engine's encoder is not part of the repository; it is taken as the
\* inverse layout of the decoder it is paired with: each value is stored at
\* the offset the decoder reads it from, in the width it reads, strings
\* right-padded with NUL, every other byte 0.
stored_bytes(f, v) ==
  IF f.conv \in {"q", "i"} THEN SubSeq(v, 1, f.len)
  ELSE v \o [k \in 1..(f.len - Len(v)) |-> 0]

encode(tbl, r, size) ==
  [p \in 1..size |->
     LET at == { k \in DOMAIN tbl :
                   /\ tbl[k].conv # "zero"
                   /\ tbl[k].at < p
                   /\ p <= tbl[k].at + tbl[k].len }
     IN IF at = {} THEN 0
        ELSE LET k == CHOOSE k \in at : TRUE
             IN stored_bytes(tbl[k], r[k])[p - tbl[k].at]]

(***************************************************************************)
(* MDTime formatting and exchange-suffix normalisation.  Text is a         *)
(* sequence of one-character strings.                                      *)
(***************************************************************************)
DigitChars == <<"0", "1", "2", "3", "4", "5", "6", "7", "8", "9">>

\* str(n) of a non-negative integer
RECURSIVE dec(_)
dec(n) ==
  IF n < 10 THEN <<DigitChars[n + 1]>>
  ELSE Append(dec(n \div 10), DigitChars[(n % 10) + 1])

\* "%02d" % n, "{:03d}".format(n): zero-filled to a minimum width
zero_pad(n, w) == [k \in 1..(w - Len(dec(n))) |-> "0"] \o dec(n)

\* "%02d:%02d:%02d.%03d" % (h, m, s, ms)
time_text(h, m, s, ms) ==
  zero_pad(h, 2) \o <<":">> \o zero_pad(m, 2) \o <<":">> \o zero_pad(s, 2)
  \o <<".">> \o zero_pad(ms, 3)

\* faulty variant of format_time: the minutes are taken one digit too low
format_time_shifted(mdtime) ==
  time_text(mdtime \div 10000000, (mdtime \div 10000) % 100,
            (mdtime \div 1000) % 100, mdtime % 1000)

\* format_time of read_mmap_v2.py, read_mmap.py and read_snapshot.py
format_time(mdtime) ==
  time_text(mdtime \div 10000000, (mdtime \div 100000) % 100,
            (mdtime \div 1000) % 100, mdtime % 1000)

\* str.startswith(c), c in s, s.endswith(t), s.upper() on the characters used
startswith(s, c) == s # << >> /\ s[1] = c
has_dot(s) == \E k \in DOMAIN s : s[k] = "."
endswith(s, t) ==
  Len(s) >= Len(t) /\ SubSeq(s, Len(s) - Len(t) + 1, Len(s)) = t
upper(s) ==
  [k \in DOMAIN s |->
     CASE s[k] = "s" -> "S" [] s[k] = "h" -> "H" [] s[k] = "z" -> "Z"
       [] OTHER -> s[k]]
isdigit(c) == \E n \in DOMAIN DigitChars : DigitChars[n] = c

SH == <<".", "S", "H">>
SZ == <<".", "S", "Z">>
Returned(s) == [ok |-> TRUE, str |-> s]
Raised == [ok |-> FALSE, str |-> << >>]

\* batch_export_server.get_full_symbol
get_full_symbol(symbol_base) ==
  IF startswith(symbol_base, "6") THEN Returned(symbol_base \o SH)
  ELSE Returned(symbol_base \o SZ)

\* mock_zmq_router.normalize_symbol
normalize_symbol(symbol) ==
  IF has_dot(symbol) THEN Returned(upper(symbol))
  ELSE IF startswith(symbol, "6") \/ startswith(symbol, "5")
  THEN Returned(symbol \o SH)
  ELSE Returned(symbol \o SZ)

\* main of download_mmap_data.py, download_mmap_data_v2.py, read_snapshot.py
main_symbol(symbol) ==
  IF ~has_dot(symbol)
  THEN IF startswith(symbol, "6") THEN Returned(symbol \o SH)
       ELSE Returned(symbol \o SZ)
  ELSE Returned(symbol)

\* normalize_symbol of run_strategy_backtest.py and
\* run_strategy_backtest_clickhouse.py (the inputs carry no white space)
normalize_symbol_backtest(symbol0) ==
  LET symbol == upper(symbol0)
      digits == SelectSeq(symbol, isdigit)
  IN IF endswith(symbol, SH) \/ endswith(symbol, SZ) THEN Returned(symbol)
     ELSE IF Len(digits) # 6 THEN Raised
     ELSE IF startswith(digits, "6") THEN Returned(digits \o SH)
     ELSE Returned(digits \o SZ)

FormatTimes ==
  {"read_mmap_v2.format_time", "read_mmap.format_time",
   "read_snapshot.format_time"}
Normalizers ==
  {"batch_export_server.get_full_symbol", "mock_zmq_router.normalize_symbol",
   "download_mmap_data.main", "download_mmap_data_v2.main",
   "read_snapshot.main", "run_strategy_backtest.normalize_symbol",
   "run_strategy_backtest_clickhouse.normalize_symbol"}

normalize(f, symbol) ==
  CASE f = "batch_export_server.get_full_symbol" -> get_full_symbol(symbol)
    [] f = "mock_zmq_router.normalize_symbol" -> normalize_symbol(symbol)
    [] f \in {"download_mmap_data.main", "download_mmap_data_v2.main",
              "read_snapshot.main"} -> main_symbol(symbol)
    [] OTHER -> normalize_symbol_backtest(symbol)

(***************************************************************************)
(* Applying a decoder, format_time or a normalisation to one argument.     *)
(***************************************************************************)
invokeVars == <<tool, dtype, target, page, page_size, count, symbols_bytes,
                end_time>>

\* the encoder paired with decoder fn lays out the record arg
EncodeRecord ==
  /\ fn \in CodecIds
  /\ arg # << >>
  /\ buf = << >>
  /\ buf' = <<encode(CodecOf(fn).fields, arg[1], CodecOf(fn).size)>>
  /\ UNCHANGED <<fn, arg, out>>
  /\ UNCHANGED <<fileVars, writerVars, invokeVars, readerVars, probeVars,
                 extVars>>

\* decoder fn is given the bytes of one record
DecodeRecord ==
  /\ fn \in CodecIds
  /\ buf # << >>
  /\ out = << >>
  /\ out' = <<unpack(CodecOf(fn).fields, buf[1])>>
  /\ UNCHANGED <<fn, arg, buf>>
  /\ UNCHANGED <<fileVars, writerVars, invokeVars, readerVars, probeVars,
                 extVars>>

FormatTime ==
  /\ fn \in FormatTimes
  /\ out = << >>
  /\ out' = <<format_time(arg[1])>>
  /\ UNCHANGED <<fn, arg, buf>>
  /\ UNCHANGED <<fileVars, writerVars, invokeVars, readerVars, probeVars,
                 extVars>>

NormalizeSymbol ==
  /\ fn \in Normalizers
  /\ out = << >>
  /\ out' = <<normalize(fn, arg[1])>>
  /\ UNCHANGED <<fn, arg, buf>>
  /\ UNCHANGED <<fileVars, writerVars, invokeVars, readerVars, probeVars,
                 extVars>>

(***************************************************************************)
(* Invocations and initial states.                                         *)
(***************************************************************************)
\* the iteration orders a Python set of the given targets can have
Orders(S) ==
  { q \in UNION { [1..n -> S] : n \in 1..Cardinality(S) } :
      \A a, b \in DOMAIN q : a # b => q[a] # q[b] }

Call(t, dt, tg, pg, ps, cnt, syms) ==
  [tool |-> t, dtype |-> dt, target |-> tg, page |-> pg, page_size |-> ps,
   count |-> cnt, symbols_bytes |-> syms]

\* the kinds each tool has a file name for
KindsOf(t) ==
  CASE t \in {"search_v2", "tail_v2"} -> Kinds
    [] t \in {"search_v1", "tail_v1", "batch", "export_v2", "tsv"} ->
         {"tick", "order", "txn"}
    [] t \in {"import", "validate"} -> {"order", "txn"}
    [] t = "snapshot" -> {"snap"}

Tools ==
  {"search_v2", "tail_v2", "search_v1", "tail_v1", "batch", "import",
   "export_v2"}

\* every invocation with its parameters drawn from the bounded sets
Calls(kinds) ==
  UNION { { Call(t, dt, tg, pg, ps, 0, << >>) :
              tg \in Targets, pg \in 1..MaxPage, ps \in 1..MaxPageSize }
          : t \in {"search_v2", "search_v1"}, dt \in kinds }
  \cup UNION { { Call(t, dt, << >>, 1, 1, cnt, << >>) : cnt \in 0..MaxCount }
               : t \in {"tail_v2", "tail_v1"}, dt \in kinds }
  \cup { Call("batch", dt, << >>, 1, 1, 0, q) :
           dt \in kinds, q \in Orders(Targets) }
  \cup { Call("import", dt, << >>, 1, 1, 0, << >>) : dt \in kinds }
  \cup { Call("export_v2", dt, tg, 1, 1, 0, << >>) :
           dt \in kinds, tg \in Targets }

\* one invocation per tool and kind, parameters fixed
PlainCalls ==
  { Call(t, dt, <<"6", "0">>, 1, MaxPageSize, MaxCount,
         IF t = "batch" THEN << <<"6", "0">> >> ELSE << >>) :
      t \in Tools, dt \in Kinds }

WellTyped(c) == c.dtype \in KindsOf(c.tool)

InitCall(c) ==
  /\ tool = c.tool
  /\ dtype = c.dtype
  /\ target = c.target
  /\ page = c.page
  /\ page_size = c.page_size
  /\ count = c.count
  /\ symbols_bytes = c.symbols_bytes

\* no function application in progress
NoFn ==
  /\ fn = "none"
  /\ arg = << >>
  /\ buf = << >>
  /\ out = << >>

InitLocals ==
  /\ pc = "start"
  /\ header = NoHeader
  /\ mapLen = 0
  /\ format_version = 0
  /\ record_size = 0
  /\ read_func = NoDecoder
  /\ total_records = 0
  /\ i = 0
  /\ results = << >>
  /\ found = 0
  /\ skipped = 0
  /\ counts = [t \in {symbols_bytes[k] : k \in DOMAIN symbols_bytes} |-> 0]
  /\ files = [t \in {symbols_bytes[k] : k \in DOMAIN symbols_bytes} |-> << >>]
  /\ readIdx = {}
  /\ nread = 0
  /\ decodedHi = 0
  /\ channel_data = [c \in Channels |-> << >>]
  /\ checked = {}
  /\ report = << >>
  /\ lines = [t \in {symbols_bytes[k] : k \in DOMAIN symbols_bytes} |-> << >>]
  /\ decodedSyms = << >>

InitReader == InitLocals /\ NoFn

\* the file the reader is on, as a directory entry
CurrentFile ==
  [magic |-> magic, struct_size |-> struct_size,
   record_count |-> record_count, fileSize |-> fileSize]

\* what is kept of a file the run has left: how the reader ended on it and
\* how many records it read
Result == [status |-> pc, n |-> Cardinality(readIdx)]
NoResult == [status |-> "pending", n |-> 0]

\* an invocation on one file
SingleFile ==
  /\ run = <<dtype>>
  /\ siblings = [k \in {dtype} |-> CurrentFile]
  /\ fileNo = 1
  /\ outcomes = [k \in {dtype} |-> NoResult]

\* the files a tool goes through in one run, in its order
run_order(t) ==
  CASE t \in {"search_v2", "search_v1"} -> <<"tick", "order", "txn">>
    [] t \in {"batch", "export_v2"} -> <<"order", "txn", "tick">>
    [] t \in {"import", "validate"} -> <<"order", "txn">>

\* whether main goes on to its next file after the reader ended with
\* status st: an exception ("error", and the ValueError behind the
\* importer's "rejected") is caught nowhere and ends the process; the
\* searcher's 'continue' and the exporter's 'return 0' go on
continues(t, st) ==
  \/ st = "done"
  \/ st = "rejected" /\ t \in {"search_v2", "export_v2"}

\* main moves on to the next file of the run
NextFile ==
  /\ pc \in {"done", "rejected", "error"}
  /\ fileNo < Len(run)
  /\ continues(tool, pc)
  /\ outcomes' = [outcomes EXCEPT ![dtype] = Result]
  /\ fileNo' = fileNo + 1
  /\ dtype' = run[fileNo + 1]
  /\ LET f == siblings[run[fileNo + 1]] IN
       /\ magic' = f.magic
       /\ struct_size' = f.struct_size
       /\ record_count' = f.record_count
       /\ fileSize' = f.fileSize
       /\ stored' = [k \in 1..f.record_count |-> <<"6", "0", ".">>]
       /\ recs' = PlainRecs(f.record_count)
  /\ pc' = "start"
  /\ header' = NoHeader
  /\ mapLen' = 0
  /\ format_version' = 0
  /\ record_size' = 0
  /\ read_func' = NoDecoder
  /\ total_records' = 0
  /\ i' = 0
  /\ results' = << >>
  /\ found' = 0
  /\ skipped' = 0
  /\ counts' = [t \in DOMAIN counts |-> 0]
  /\ files' = [t \in DOMAIN files |-> << >>]
  /\ lines' = [t \in DOMAIN lines |-> << >>]
  /\ decodedSyms' = << >>
  /\ readIdx' = {}
  /\ nread' = 0
  /\ decodedHi' = 0
  /\ channel_data' = [c \in Channels |-> << >>]
  /\ checked' = {}
  /\ report' = << >>
  /\ UNCHANGED <<tool, target, page, page_size, count, symbols_bytes,
                 end_time, max_records, run, siblings, fnVars>>
  /\ UNCHANGED writerVars

\* the magics of a kind, both generations
MagicsOf(k) == { m \in KnownMagics : KindOfMagic(m) = k }

\* the generations a tool has record layouts for
GensOf(t) ==
  IF t \in {"search_v2", "tail_v2", "export_v2"} THEN {1, 2}
  ELSE IF t = "tsv" THEN {2}
  ELSE {1}

\* the magics of the files a tool is written to read, for a kind
MagicsFor(t, k) == { m \in MagicsOf(k) : detect_version(m) \in GensOf(t) }

\* the kinds the content-level scans are run on
ScanKinds == {"order", "txn"}

\* A well-formed file of the requested kind, of a generation the tool has
\* a layout for, holding N records, possibly pre-extended, with any
\* content; nothing is appended.
Init ==
  /\ \E c \in Calls(ScanKinds) : WellTyped(c) /\ InitCall(c)
  /\ magic \in MagicsFor(tool, dtype)
  /\ struct_size = MandatedSize(magic)
  /\ record_count \in 0..MaxRecords
  /\ stored \in [1..record_count -> StoredSymbols]
  /\ fileSize \in { HEADER_SIZE + record_count * struct_size + extra :
                     extra \in {0, PreExtend} }
  /\ wbytes = 0
  /\ appended = 0
  /\ recs = PlainRecs(record_count)
  /\ max_records = MAX_RECORDS_DEFAULT
  /\ end_time = None
  /\ SingleFile
  /\ InitReader

Next ==
  \/ MainV2
  \/ MainV1
  \/ BatchOpen
  \/ ImportOpen
  \/ ExportOpen
  \/ SearchStep
  \/ TailStep
  \/ BatchStep
  \/ ImportStep
  \/ ExportStep

Spec == Init /\ [][Next]_vars

\* the record sizes of the magic table
TableSizes ==
  { SIZE_ORDER_V1, SIZE_TRANSACTION_V1, SIZE_TICK_V1, SIZE_SNAPSHOT_V1,
    SIZE_ORDER_V2, SIZE_TRANSACTION_V2, SIZE_TICK_V2, SIZE_SNAPSHOT_V2 }

\* Any file a tool can be pointed at: any magic, any declared struct_size
\* of the table, a header that may be truncated, a record region of
\* record_count * struct_size bytes that may be pre-extended.
InitOpen ==
  /\ \E c \in PlainCalls : WellTyped(c) /\ InitCall(c)
  /\ magic \in KnownMagics \cup {MAGIC_UNKNOWN}
  /\ struct_size \in TableSizes
  /\ record_count \in 0..MaxRecords
  /\ stored = [k \in 1..record_count |-> <<"6", "0", ".">>]
  /\ fileSize \in { 0, HEADER_UNPACK_LEN - 1, HEADER_UNPACK_LEN,
                    HEADER_SIZE - 1 }
                  \cup { HEADER_SIZE + record_count * struct_size + extra :
                           extra \in {0, PreExtend} }
  /\ wbytes = 0
  /\ appended = 0
  /\ recs = PlainRecs(record_count)
  /\ max_records = MAX_RECORDS_DEFAULT
  /\ end_time = None
  /\ SingleFile
  /\ InitReader

SpecOpen == InitOpen /\ [][Next]_vars

\* A file the engine is appending to while a tool reads it: well-formed,
\* of the requested kind, of a generation the tool has a layout for.
InitConc ==
  /\ \E c \in PlainCalls :
        /\ WellTyped(c)
        /\ \E cnt \in {1, MaxCount} : InitCall([c EXCEPT !.count = cnt])
  /\ magic \in MagicsFor(tool, dtype)
  /\ struct_size = MandatedSize(magic)
  /\ record_count \in 0..1
  /\ stored \in [1..record_count -> StoredSymbols]
  /\ fileSize \in { HEADER_SIZE + record_count * struct_size + extra :
                     extra \in {0, PreExtend} }
  /\ wbytes = 0
  /\ appended = 0
  /\ recs = PlainRecs(record_count)
  /\ max_records = MAX_RECORDS_DEFAULT
  /\ end_time = None
  /\ SingleFile
  /\ InitReader

NextConc == Next \/ WriterWrite \/ WriterPublish

SpecConc == InitConc /\ [][NextConc]_vars

\* p records of channel 1 in good order (constant MDTime, ApplSeqNum 1..p)
Filler(p) == PlainRecs(p)

\* the records that follow the padding
FreeRecs ==
  { [ZeroRec EXCEPT !.mdtime = t, !.applseqnum = q, !.channelno = c] :
      t \in {-2, -1, 0}, q \in {9, 10, 11}, c \in Channels }

\* a file whose channel 1 holds exactly the ApplSeqNum sequence 5, 7, 6, 9
Example5769 ==
  [k \in 1..4 |->
     [ZeroRec EXCEPT !.applseqnum = <<5, 7, 6, 9>>[k], !.channelno = 1]]

ValFiles ==
  {Example5769}
  \cup { Filler(p) \o free :
           p \in {0, PadRecords},
           free \in UNION { [1..n -> FreeRecs] : n \in 0..MaxFree } }

\* A well-formed V1 order or transaction file given to the Sequence
\* Validator, with the default record cap or a small one.
InitVal ==
  /\ \E dt \in {"order", "txn"} :
        InitCall(Call("validate", dt, << >>, 1, 1, 0, << >>))
  /\ magic \in MagicsFor(tool, dtype)
  /\ struct_size = MandatedSize(magic)
  /\ recs \in ValFiles
  /\ record_count = Len(recs)
  /\ stored = [k \in 1..record_count |-> <<"6", "0", ".">>]
  /\ fileSize = HEADER_SIZE + record_count * struct_size
  /\ wbytes = 0
  /\ appended = 0
  /\ max_records \in {CapArg, MAX_RECORDS_DEFAULT}
  /\ end_time = None
  /\ SingleFile
  /\ InitReader

NextVal == ValOpen \/ ValLoad \/ ValCheck

\* MDTime values around the bound 000001 (1000 as HHMMSSmmm), and the
\* values of an optional field
MdTimes == {0, 999, 1000}
CondValues == {-1, 0, 1}

\* files whose records differ in symbol and MDTime
TimeFiles ==
  UNION { [1..n -> { [sym |-> y, rec |-> [PlainRec(1) EXCEPT !.mdtime = t]] :
                       y \in {<<"6", "0", ".">>, <<"0", "6", ".">>,
                               <<"0", "0", ".">>},
                       t \in MdTimes }]
          : n \in 0..MaxRecords }

\* files whose records differ in their optional fields
LineFiles ==
  UNION { [1..n -> { [sym |-> <<"6", "0", ".">>,
                      rec |-> [PlainRec(1) EXCEPT
                                 !.orderno = a, !.tradebuyno = a,
                                 !.tradesellno = b, !.tradeprice = c,
                                 !.trademoney = d]] :
                       a \in CondValues, b \in CondValues,
                       c \in CondValues, d \in CondValues }]
          : n \in 0..MaxLines }

\* A well-formed V1 order or transaction file given to the Batch Exporter
\* with two target symbols: either with an end-time argument (absent,
\* 000000 or 000001) and records around the bound, or without one and
\* records whose optional fields vary.
InitExport ==
  /\ \E dt \in {"order", "txn"} :
        InitCall(Call("batch", dt, << >>, 1, 1, 0,
                      << <<"6", "0">>, <<"0", "6">> >>))
  /\ magic \in MagicsFor(tool, dtype)
  /\ struct_size = MandatedSize(magic)
  /\ \E f \in TimeFiles \cup LineFiles :
        /\ stored = [k \in DOMAIN f |-> f[k].sym]
        /\ recs = [k \in DOMAIN f |-> f[k].rec]
        /\ end_time \in IF f \in TimeFiles
                         THEN { main_end_time(a) : a \in {<< >>, <<0>>, <<1>>} }
                         ELSE { None }
  /\ record_count = Len(recs)
  /\ fileSize = HEADER_SIZE + record_count * struct_size
  /\ wbytes = 0
  /\ appended = 0
  /\ max_records = MAX_RECORDS_DEFAULT
  /\ SingleFile
  /\ InitReader

NextExport == BatchOpen \/ BatchStep

\* the record size of another kind
OtherSize(k) == IF k = "order" THEN SIZE_TRANSACTION_V1 ELSE SIZE_ORDER_V1

\* a well-formed file of kind k for tool t, and the three malformed ones:
\* unknown magic, truncated header, struct_size not the magic's
GoodFiles(t, k) ==
  { [magic |-> m, struct_size |-> MandatedSize(m),
     record_count |-> RunRecords,
     fileSize |-> HEADER_SIZE + RunRecords * MandatedSize(m)] :
      m \in MagicsFor(t, k) }
BadFiles(t, k) ==
  LET g == CHOOSE g \in GoodFiles(t, k) : detect_version(g.magic) = 1 IN
  { [g EXCEPT !.magic = MAGIC_UNKNOWN],
    [g EXCEPT !.fileSize = HEADER_UNPACK_LEN - 1],
    [g EXCEPT !.struct_size = OtherSize(k),
              !.fileSize = HEADER_SIZE + RunRecords * OtherSize(k)] }

\* A run of a tool over the files of one data directory, each of them
\* well-formed or malformed.
InitRun ==
  /\ \E t \in {"search_v2", "search_v1", "batch", "export_v2", "import",
                "validate"} :
        /\ run = run_order(t)
        /\ siblings \in [Range(run) -> UNION { GoodFiles(t, k) \cup BadFiles(t, k)
                                                : k \in Range(run) }]
        /\ \A k \in Range(run) :
              siblings[k] \in GoodFiles(t, k) \cup BadFiles(t, k)
        /\ InitCall(Call(t, run[1], <<"6", "0">>, 1, MaxPageSize, 0,
                         IF t = "batch" THEN << <<"6", "0">> >> ELSE << >>))
  /\ fileNo = 1
  /\ outcomes = [k \in Range(run) |-> NoResult]
  /\ magic = siblings[dtype].magic
  /\ struct_size = siblings[dtype].struct_size
  /\ record_count = siblings[dtype].record_count
  /\ fileSize = siblings[dtype].fileSize
  /\ stored = [k \in 1..record_count |-> <<"6", "0", ".">>]
  /\ recs = PlainRecs(record_count)
  /\ wbytes = 0
  /\ appended = 0
  /\ max_records = MAX_RECORDS_DEFAULT
  /\ end_time = None
  /\ InitReader

\* symbol fields as they can be stored: clean, with an invalid byte inside,
\* nothing but an invalid byte, and one that matches no target
SymSymbols ==
  { <<"6", "0", ".">>, <<"6", "0", INVALID>>, <<INVALID>>, <<"0", "0", ".">> }

\* A well-formed file of a kind and generation the tool reads, whose symbol
\* fields may hold bytes that are no valid UTF-8.
InitSym ==
  /\ \E t \in {"search_v2", "search_v1", "tail_v2", "tail_v1", "batch",
                "import", "export_v2", "validate", "snapshot"} :
        InitCall(Call(t, IF t = "snapshot" THEN "snap" ELSE "order",
                      <<"6", "0">>, 1, MaxPageSize, MaxCount,
                      IF t = "batch" THEN << <<"6", "0">> >> ELSE << >>))
  /\ magic \in MagicsFor(tool, dtype)
  /\ struct_size = MandatedSize(magic)
  /\ record_count \in 0..MaxRecords
  /\ stored \in [1..record_count -> SymSymbols]
  /\ recs = PlainRecs(record_count)
  /\ fileSize = HEADER_SIZE + record_count * struct_size
  /\ wbytes = 0
  /\ appended = 0
  /\ max_records = MAX_RECORDS_DEFAULT
  /\ end_time = None
  /\ SingleFile
  /\ InitReader

NextSym ==
  \/ Next
  \/ ValOpen \/ ValLoad \/ ValCheck
  \/ SnapOpen \/ SnapStep

SpecSym == InitSym /\ [][NextSym]_vars

\* what is left of the last record: nothing, its symbol field only, all
\* but its last byte
Parts(size) == {0, SYMBOL_LEN, size - 1}

\* A file with a well-formed header, of a kind and generation the tool
\* reads, that is complete or physically ends inside its last record.
InitTrunc ==
  /\ \E t \in {"search_v2", "search_v1", "tail_v2", "tail_v1", "batch",
                "import", "export_v2", "validate", "snapshot", "tsv"} :
        InitCall(Call(t, IF t = "snapshot" THEN "snap" ELSE "order",
                      <<"6", "0">>, 1, MaxPageSize, MaxCount,
                      IF t = "batch" THEN << <<"6", "0">> >> ELSE << >>))
  /\ magic \in MagicsFor(tool, dtype)
  /\ struct_size = MandatedSize(magic)
  /\ record_count \in 0..MaxRecords
  /\ stored = [k \in 1..record_count |-> <<"6", "0", ".">>]
  /\ recs = PlainRecs(record_count)
  /\ fileSize \in
        { HEADER_SIZE + record_count * struct_size }
        \cup { HEADER_SIZE + (record_count - 1) * struct_size + part :
                 part \in IF record_count > 0 THEN Parts(struct_size) ELSE {} }
  /\ wbytes = 0
  /\ appended = 0
  /\ max_records = MAX_RECORDS_DEFAULT
  /\ end_time = None
  /\ SingleFile
  /\ InitReader

NextTrunc ==
  \/ NextSym
  \/ TsvOpen \/ TsvStep

SpecTrunc == InitTrunc /\ [][NextTrunc]_vars

\* records of a size that are zero except for one byte
Marked(size, p) == [k \in 1..size |-> IF k = p + 1 THEN 1 ELSE 0]
Marks(size) == { p \in 0..(size - 1) : p % 4 = 0 }

\* field values: 0, 1 and -1
IntValues ==
  { <<0, 0, 0, 0, 0, 0, 0, 0>>, <<1, 0, 0, 0, 0, 0, 0, 0>>,
    <<255, 255, 255, 255, 255, 255, 255, 255>> }
\* "600000.SH" and "OK" in ASCII
SymbolValue == <<54, 48, 48, 48, 48, 48, 46, 83, 72>>
StatusValue == <<79, 75>>
\* fields a V1 record does not have
V2Only == {"local_recv_ts", "datatimestamp"}

\* the records a decoder's round trip is tried on: every integer field at
\* one value, one of them at another
Samples(c) ==
  LET tbl == c.fields
      ints == { k \in DOMAIN tbl : tbl[k].conv \in {"q", "i", "zero"}
                                   /\ ~(c.gen = 1 /\ k \in V2Only) }
  IN { [k \in DOMAIN tbl |->
          IF k \in ints THEN (IF k = g THEN w ELSE v)
          ELSE IF tbl[k].conv = "zero" THEN <<0, 0, 0, 0, 0, 0, 0, 0>>
          ELSE IF tbl[k].len = 40 THEN SymbolValue ELSE StatusValue] :
       g \in ints, v \in IntValues, w \in IntValues }

Hours == 0..23
Minutes == {0, 30, 59}
Seconds == {0, 59}
Millis == {0, 50, 999}
pack_time(h, m, s, ms) == h * 10000000 + m * 100000 + s * 1000 + ms

BareCodes ==
  { <<DigitChars[n], "0", "0", "0", "0", "1">> : n \in DOMAIN DigitChars }
  \cup { <<"6", "0", "0", "0", "0", "0">>, <<"0", "0", "0", "0", "0", "1">> }

\* One application of a decoder to a record's bytes, of an encoder and the
\* decoder to a record, of format_time to a packed time, or of a
\* normalisation to a bare code; no file is read.
InitPure ==
  /\ InitCall(Call("none", "order", << >>, 1, 1, 0, << >>))
  /\ magic = MAGIC_ORDER_V1
  /\ struct_size = SIZE_ORDER_V1
  /\ record_count = 0
  /\ stored = << >>
  /\ recs = << >>
  /\ fileSize = HEADER_SIZE
  /\ wbytes = 0
  /\ appended = 0
  /\ max_records = MAX_RECORDS_DEFAULT
  /\ end_time = None
  /\ SingleFile
  /\ InitLocals
  /\ out = << >>
  /\ \/ \E n \in DOMAIN Codecs :
          /\ fn = Codecs[n].id
          /\ \/ /\ arg = << >>
                /\ \E p \in Marks(Codecs[n].size) :
                      buf = <<Marked(Codecs[n].size, p)>>
             \/ /\ arg \in { <<r>> : r \in Samples(Codecs[n]) }
                /\ buf = << >>
     \/ /\ fn \in FormatTimes
        /\ arg \in { <<pack_time(h, m, s, ms)>> :
                       h \in Hours, m \in Minutes, s \in Seconds, ms \in Millis }
        /\ buf = << >>
     \/ /\ fn \in Normalizers
        /\ arg \in { <<c>> : c \in BareCodes }
        /\ buf = << >>

NextPure == EncodeRecord \/ DecodeRecord \/ FormatTime \/ NormalizeSymbol

SpecPure == InitPure /\ [][NextPure]_vars

NextRun ==
  \/ MainV2 \/ MainV1 \/ BatchOpen \/ ImportOpen \/ ExportOpen
  \/ SearchStep \/ BatchStep \/ ImportStep \/ ExportStep
  \/ ValOpen \/ ValLoad \/ ValCheck
  \/ NextFile

SpecRun == InitRun /\ [][NextRun]_vars

SpecExport == InitExport /\ [][NextExport]_vars

SpecVal == InitVal /\ [][NextVal]_vars

(***************************************************************************)
(* Claims.                                                                 *)
(***************************************************************************)
\* C1: in every reader, for a file whose header holds record_count = N,
\* every record index read satisfies 0 <= i < N, and no byte at or beyond
\* HEADER_SIZE + N * struct_size is ever decoded, also when the file is
\* physically larger (pre-extended).
C1_NeverPastRecordCount ==
  /\ \A k \in readIdx : 0 <= k /\ k < record_count
  /\ decodedHi <= HEADER_SIZE + record_count * struct_size



Ascending(q) == \A a, b \in DOMAIN q : a < b => q[a] < q[b]

RECURSIVE Sum(_, _)
Sum(f, S) ==
  IF S = {} THEN 0
  ELSE LET x == CHOOSE x \in S : TRUE IN f[x] + Sum(f, S \ {x})

\* C2: with one writer that writes all bytes of record k and only then
\* increments record_count, and readers running concurrently without locks,
\* every record a reader decodes is a fully written record.
C2_DecodesOnlyCompleteRecords ==
  /\ \A k \in readIdx : k < Completed
  /\ decodedHi <= HEADER_SIZE + Completed * struct_size

\* C2 witness: a reader has read the last published record, which the
\* engine appended during the run, while the next record is half written.
C2_Witness ==
  /\ appended >= 1
  /\ wbytes > 0 /\ wbytes < struct_size
  /\ (record_count - 1) \in readIdx
  /\ decodedHi > HEADER_SIZE + (record_count - 1) * struct_size

C4_SizeMismatchRejected ==
  (/\ pc # "start"
   /\ header.ok
   /\ header.magic \in KnownMagics
   /\ header.struct_size # MandatedSize(header.magic))
  => (pc = "rejected" /\ readIdx = {})

\* C5: read_header yields no Header for a buffer shorter than 64 bytes or
\* with a magic outside the 8-entry table.
C5_HeaderRejected ==
  header.ok => (fileSize >= HEADER_SIZE /\ header.magic \in KnownMagics)

\* C6: decoder and record size are selected from the header magic alone:
\* whenever a record is decoded, the decoder's kind and generation and the
\* record size are those the magic names.
C6_DecoderFromMagic ==
  readIdx # {} =>
    /\ read_func.kind = KindOfMagic(magic)
    /\ read_func.gen = detect_version(magic)
    /\ record_size = MandatedSize(magic)

\* records of the file that are in no output stream
Unmatched ==
  Cardinality({ k \in 0..(record_count - 1) :
                  \A t \in DOMAIN files : k \notin Range(files[t]) })

\* C7: for a file with record_count = R the Batch Exporter reads each index
\* in [0, R) exactly once (R record reads whatever the number of targets),
\* and at the end the per-symbol counts plus the number of records written
\* to no stream add up to R.
C7_OnePassAccounting ==
  tool = "batch" =>
    /\ pc \in {"scan", "done"} => (nread = i /\ readIdx = 0..(i - 1))
    /\ pc = "done" =>
         /\ nread = record_count
         /\ \A t \in DOMAIN files : Len(files[t]) = counts[t]
         /\ Sum(counts, DOMAIN counts) + Unmatched = record_count

\* C7 witness: a finished export with two non-empty streams and a record
\* that went to no stream.
C7_Witness ==
  /\ tool = "batch"
  /\ pc = "done"
  /\ Cardinality({ t \in DOMAIN counts : counts[t] > 0 }) >= 2
  /\ Unmatched >= 1

\* C8 (as stated): a record is written to the stream of symbol s only if
\* its stored symbol is s, and every record whose stored symbol is in the
\* target set is written to exactly that element's stream.
C8_WrittenIffEqual ==
  tool = "batch" =>
    /\ \A t \in DOMAIN files : \A k \in Range(files[t]) : SlotSymbol(k) = t
    /\ pc = "done" =>
         \A k \in 0..(record_count - 1) :
            SlotSymbol(k) \in DOMAIN files =>
               \A t \in DOMAIN files :
                  (k \in Range(files[t])) <=> (t = SlotSymbol(k))

\* the position of target t in the iteration order of the target set
PosOf(t) == CHOOSE k \in DOMAIN symbols_bytes : symbols_bytes[k] = t

\* C8 (amended): a record is written to the stream of symbol s only if s
\* occurs in the record's stored symbol and no target earlier in the set's
\* iteration order does; every record whose stored symbol contains a target
\* is written to exactly one stream, once.
C8_WrittenIffFirstContained ==
  tool = "batch" =>
    /\ \A t \in DOMAIN files : \A k \in Range(files[t]) :
          /\ Contains(t, SlotSymbol(k))
          /\ \A j \in 1..(PosOf(t) - 1) :
                ~Contains(symbols_bytes[j], SlotSymbol(k))
    /\ pc = "done" =>
         \A k \in 0..(record_count - 1) :
            (\E t \in DOMAIN files : Contains(t, SlotSymbol(k))) =>
               /\ Cardinality({ t \in DOMAIN files : k \in Range(files[t]) }) = 1
               /\ \A t \in DOMAIN files :
                     Cardinality({ n \in DOMAIN files[t] : files[t][n] = k }) <= 1

\* C8 witness: a finished export in which a record stored with its exchange
\* suffix sits in a target's stream and a record containing two targets
\* sits in the stream of the one iterated first.
C8_Witness ==
  /\ tool = "batch"
  /\ pc = "done"
  /\ \E t \in DOMAIN files : \E k \in Range(files[t]) : SlotSymbol(k) # t
  /\ \E t, u \in DOMAIN files : \E k \in Range(files[t]) :
        t # u /\ Contains(u, SlotSymbol(k))

\* the indices a tail request must yield, in order
TailExpected ==
  LET n == Min(count, record_count) IN
  [k \in 1..n |-> record_count - n + k - 1]

\* C9: for a file with record_count = N a full scan yields exactly the
\* records at indices 0..N-1, and a tail request for count records yields
\* exactly the records at indices N-min(count,N)..N-1 in ascending order.
C9_ScanAndTail ==
  pc = "done" =>
    /\ tool \in {"tail_v2", "tail_v1"} => results = TailExpected
    /\ tool \in {"search_v2", "search_v1", "batch", "export_v2"} =>
         (readIdx = 0..(record_count - 1) /\ nread = record_count)
    /\ tool = "import" => results = [k \in 1..record_count |-> k - 1]

\* C9 witness: a finished tail request for fewer records than the file
\* holds.
C9_Witness ==
  /\ tool \in {"tail_v2", "tail_v1"}
  /\ pc = "done"
  /\ count >= 1 /\ count < record_count
  /\ Len(results) = count

\* indices whose symbol contains the target, rank among them (1-based), and
\* the indices of the requested page
MatchIdx == { k \in 0..(record_count - 1) : Contains(target, SlotSymbol(k)) }
RankOf(k) == Cardinality({ j \in MatchIdx : j <= k })
PageIdx ==
  { k \in MatchIdx : /\ RankOf(k) > (page - 1) * page_size
                     /\ RankOf(k) <= page * page_size }

\* C10: search_symbol with page >= 1 and page_size >= 1 returns exactly the
\* matches whose rank lies in ((page-1)*page_size, page*page_size], in
\* ascending index order, and nothing when fewer than (page-1)*page_size+1
\* records match.
C10_Pagination ==
  (tool \in {"search_v2", "search_v1"} /\ pc = "done") =>
    /\ Range(results) = PageIdx
    /\ Ascending(results)
    /\ Cardinality(MatchIdx) < (page - 1) * page_size + 1 => results = << >>

\* C10 witness: a finished search for page 2 that skipped a full first page
\* and returned a match.
C10_Witness ==
  /\ tool \in {"search_v2", "search_v1"}
  /\ pc = "done"
  /\ page = 2
  /\ skipped = page_size
  /\ Len(results) >= 1

\* C11: the total match count search_symbol returns is the number of
\* records in [0, record_count) whose symbol contains the target, whatever
\* the page and page_size asked for.
C11_TotalMatchCount ==
  (tool \in {"search_v2", "search_v1"} /\ pc = "done") =>
    found = Cardinality(MatchIdx)

\* C11 witness: a finished search for page 2 whose total counts matches
\* that were skipped, returned, and left for later pages.
C11_Witness ==
  /\ tool \in {"search_v2", "search_v1"}
  /\ pc = "done"
  /\ page = 2
  /\ skipped >= 1
  /\ Len(results) >= 1
  /\ found > skipped + Len(results)

\* the channels that occur in the file, and a channel's records in file order
FileChannels == { recs[k].channelno : k \in DOMAIN recs }
RECURSIVE ChannelRecs(_, _)
ChannelRecs(c, n) ==
  IF n = 0 THEN << >>
  ELSE IF recs[n].channelno = c
       THEN Append(ChannelRecs(c, n - 1), recs[n])
       ELSE ChannelRecs(c, n - 1)

\* positions i >= 1 of channel c with ApplSeqNum[i] <= ApplSeqNum[i-1], and
\* with MDTime[i] < MDTime[i-1]
SeqExpected(c) ==
  LET q == ChannelRecs(c, Len(recs)) IN
  Cardinality({ k \in 2..Len(q) : q[k].applseqnum <= q[k - 1].applseqnum })
TimeExpected(c) ==
  LET q == ChannelRecs(c, Len(recs)) IN
  Cardinality({ k \in 2..Len(q) : q[k].mdtime < q[k - 1].mdtime })

\* C12: for every channel C of the file the Sequence Validator reports as
\* sequence violations the number of positions i >= 1 of C's records with
\* ApplSeqNum[i] <= ApplSeqNum[i-1]; for the file whose channel holds
\* 5, 7, 6, 9 it reports exactly 1.
C12_SequenceViolations ==
  (tool = "validate" /\ pc = "done") =>
    /\ \A c \in FileChannels :
          /\ c \in DOMAIN report
          /\ report[c].seq_violations = SeqExpected(c)
    /\ recs = Example5769 =>
          (1 \in DOMAIN report /\ report[1].seq_violations = 1)

\* C13: for every reported channel the time-violation count is the number
\* of positions i >= 1 of the channel's records with MDTime[i] strictly
\* smaller than MDTime[i-1], whatever the MDTime values (0 and negative
\* ones included).
C13_TimeViolations ==
  (tool = "validate" /\ pc = "done") =>
    \A c \in DOMAIN report : report[c].time_violations = TimeExpected(c)

\* C14: the Sequence Validator places every record index in
\* [0, record_count) into exactly one per-channel list, that of its
\* channelno, in file order, for every record_count, and it runs to
\* completion.
C14_EveryRecordGrouped ==
  (tool = "validate" /\ pc \in {"check", "done"}) =>
    /\ \A k \in 0..(record_count - 1) :
          \A c \in Channels :
             (\E n \in DOMAIN channel_data[c] : channel_data[c][n].idx = k)
             <=> (c = recs[k + 1].channelno)
    /\ \A c \in Channels :
          \A a, b \in DOMAIN channel_data[c] :
             a < b => channel_data[c][a].idx < channel_data[c][b].idx

\* the record indices written to some output stream
Written == UNION { Range(files[t]) : t \in DOMAIN files }

\* C15: when an end-time bound is supplied to the exporter, no record with
\* MDTime >= end_time is in any output stream and every matching record
\* with MDTime < end_time is, for every supplied bound, 0 (command-line
\* value 000000) included.
C15_EndTimeBound ==
  (tool = "batch" /\ pc = "done" /\ ~end_time.none) =>
    \A k \in 0..(record_count - 1) :
       (k \in Written) <=>
          /\ matched_sym(symbols_bytes, SlotSymbol(k)) # << >>
          /\ SlotRec(k).mdtime < end_time.value

\* the keys of a record kind in their fixed order, the optional ones among
\* them, and the field an optional key prints
KeyOrder(dt) ==
  IF dt = "order"
  THEN <<"HTSCSecurityID", "MDDate", "MDTime", "securityIDSource",
         "securityType", "OrderIndex", "OrderNO", "OrderType", "OrderPrice",
         "OrderQty", "OrderBSFlag", "ChannelNo", "ApplSeqNum",
         "DataMultiplePowerOf10">>
  ELSE <<"HTSCSecurityID", "MDDate", "MDTime", "securityIDSource",
         "securityType", "TradeIndex", "TradeBuyNo", "TradeSellNo",
         "TradeType", "TradeBSFlag", "TradePrice", "TradeQty", "TradeMoney",
         "ApplSeqNum", "ChannelNo", "DataMultiplePowerOf10">>
OptionalKeys ==
  {"OrderNO", "TradeBuyNo", "TradeSellNo", "TradePrice", "TradeMoney"}
FieldOf(r, key) ==
  CASE key = "OrderNO" -> r.orderno
    [] key = "TradeBuyNo" -> r.tradebuyno
    [] key = "TradeSellNo" -> r.tradesellno
    [] key = "TradePrice" -> r.tradeprice
    [] key = "TradeMoney" -> r.trademoney
RECURSIVE KeysDue(_, _, _)
KeysDue(q, n, r) ==
  IF n = 0 THEN << >>
  ELSE IF q[n] \in OptionalKeys /\ ~(FieldOf(r, q[n]) > 0)
       THEN KeysDue(q, n - 1, r)
       ELSE Append(KeysDue(q, n - 1, r), q[n])

Finished ==
  /\ pc \in {"done", "rejected", "error"}
  /\ (fileNo = Len(run) \/ ~continues(tool, pc))

\* what became of the file of kind k
Outcome(k) == IF k = dtype THEN Result ELSE outcomes[k]

\* a file with a format error: unknown magic, truncated header, or a
\* struct_size that is not the one its magic mandates
Malformed(f) ==
  \/ f.fileSize < HEADER_SIZE
  \/ f.magic \notin KnownMagics
  \/ f.struct_size # MandatedSize(f.magic)

\* C17: a format error on one file aborts the operation on that file only:
\* in every multi-file run the well-formed sibling files are still
\* processed, with the results they have when the bad file is absent
\* (all their records read, ending normally).
C17_SiblingsProcessed ==
  (Finished /\ \E k \in Range(run) : Malformed(siblings[k])) =>
    \A k \in Range(run) :
       ~Malformed(siblings[k]) =>
          Outcome(k) = [status |-> "done", n |-> siblings[k].record_count]

\* a symbol field with its invalid bytes dropped, and with them replaced
Dropped(bytes) == SelectSeq(bytes, IsValidByte)
Replaced(bytes) ==
  [k \in DOMAIN bytes |-> IF IsValidByte(bytes[k]) THEN bytes[k]
                         ELSE REPLACEMENT]

\* C19: decoding a record never fails because of the bytes of its symbol
\* field: for every content of the field, invalid UTF-8 included, every
\* decoder and scanner yields the symbol with the invalid bytes replaced or
\* dropped, and the scan goes on to the next record.
C19_SymbolNeverFails ==
  /\ pc # "error"
  /\ \A n \in DOMAIN decodedSyms :
        decodedSyms[n].str \in { Dropped(SlotSymbol(decodedSyms[n].idx)),
                                 Replaced(SlotSymbol(decodedSyms[n].idx)) }
  /\ pc = "done" =>
        IF tool \in {"tail_v2", "tail_v1"}
        THEN results = TailExpected
        ELSE readIdx = 0..(record_count - 1)

\* C18: a tail request for more records than record_count is reported to
\* the caller as an out-of-range outcome, distinguishable from a successful
\* result and not fatal; it is not turned into a shorter result.
C18_TailOutOfRange ==
  (tool \in {"tail_v2", "tail_v1"} /\ header.ok
   /\ count > header.record_count)
  => (pc = "out_of_range" /\ results = << >>)

\* the record indices the reader has decoded, yielded or written
Yielded ==
  Range(results) \cup Written
  \cup { decodedSyms[n].idx : n \in DOMAIN decodedSyms }
  \cup UNION { { channel_data[c][n].idx : n \in DOMAIN channel_data[c] } :
                c \in Channels }

\* whether all struct_size bytes of record k are in the file
Complete(k) == HEADER_SIZE + (k + 1) * struct_size <= fileSize

\* C20: every record read starts at HEADER_SIZE + index * struct_size and
\* covers struct_size bytes; no reader decodes, yields or counts a record
\* of which the file holds fewer than struct_size bytes.
C20_NoPartialRecord ==
  /\ readIdx # {} => record_size = struct_size
  /\ \A k \in Yielded : Complete(k)
  /\ found <= Cardinality({ k \in 0..(record_count - 1) : Complete(k) })

\* the name a decoder gives the local receive timestamp
RecvNames == {"local_recv_ts", "local_recv_timestamp"}

\* C21: for every V2 record kind (Order, Transaction, Tick,
\* OrderbookSnapshot) the V2 decoder takes local_recv_timestamp from bytes
\* 0..7 of the record, as a little-endian signed 64-bit integer.
C21_RecvTimestampAtZero ==
  (fn \in CodecIds /\ buf # << >> /\ out # << >>) =>
    (CodecOf(fn).gen = 2 =>
       /\ DOMAIN out[1] \cap RecvNames # {}
       /\ \A k \in DOMAIN out[1] \cap RecvNames :
             out[1][k] = unpack_q(buf[1], 0))

\* C22: for every supported (kind, generation) pair and every record r
\* whose fields are within their documented ranges, decoding the bytes the
\* encoder lays out for r gives r back.
C22_RoundTrip ==
  (fn \in CodecIds /\ arg # << >> /\ out # << >>) => out[1] = arg[1]

\* C23: every exchange-suffix normalisation maps a bare code to
\* code + ".SH" exactly when its leading digit is 6 and to code + ".SZ" for
\* every other leading digit ("600000" -> "600000.SH",
\* "000001" -> "000001.SZ").
C23_ExchangeSuffix ==
  (fn \in Normalizers /\ out # << >> /\ ~has_dot(arg[1])) =>
    out[1] = Returned(arg[1] \o (IF arg[1][1] = "6" THEN SH ELSE SZ))

\* n written with exactly two, exactly three decimal digits
TwoDigits(n) == <<DigitChars[(n \div 10) + 1], DigitChars[(n % 10) + 1]>>
ThreeDigits(n) ==
  <<DigitChars[(n \div 100) + 1], DigitChars[((n \div 10) % 10) + 1],
    DigitChars[(n % 10) + 1]>>

\* C24: for h in 0..23, m in 0..59, s in 0..59 and ms in 0..999,
\* format_time of h*10000000 + m*100000 + s*1000 + ms is the text
\* HH:MM:SS.mmm of exactly these components; 93000050 gives 09:30:00.050.
C24_FormatTime ==
  (fn \in FormatTimes /\ out # << >>) =>
    /\ \A h \in Hours, m \in Minutes, s \in Seconds, ms \in Millis :
          arg[1] = pack_time(h, m, s, ms) =>
            out[1] = TwoDigits(h) \o <<":">> \o TwoDigits(m) \o <<":">>
                     \o TwoDigits(s) \o <<".">> \o ThreeDigits(ms)
    /\ arg[1] = 93000050 =>
          out[1] = <<"0", "9", ":", "3", "0", ":", "0", "0", ".",
                     "0", "5", "0">>

C24_Witness ==
  /\ fn = "read_mmap_v2.format_time"
  /\ arg = <<93000050>>
  /\ out = << <<"0", "9", ":", "3", "0", ":", "0", "0", ".", "0", "5", "0">> >>

\* the decoders given V1 Order records
V1OrderCodecs ==
  { n \in DOMAIN Codecs : Codecs[n].kind = "order" /\ Codecs[n].gen = 1 }

\* C30: for any 144-byte V1 Order record all V1 Order decoders return the
\* same value for each field they have in common: channelno is the int32
\* at bytes 92..95, orderno the int64 at bytes 96..103, applseqnum the
\* int64 at bytes 112..119.
C30_V1OrderDecodersAgree ==
  (/\ fn \in CodecIds
   /\ buf # << >>
   /\ out # << >>
   /\ CodecOf(fn).kind = "order"
   /\ CodecOf(fn).gen = 1) =>
    /\ \A n \in V1OrderCodecs :
          \A k \in DOMAIN out[1] \cap DOMAIN Codecs[n].fields :
             out[1][k] = unpack(Codecs[n].fields, buf[1])[k]
    /\ "channelno" \in DOMAIN out[1] =>
          out[1]["channelno"] = unpack_i(buf[1], 92)
    /\ "orderno" \in DOMAIN out[1] =>
          out[1]["orderno"] = unpack_q(buf[1], 96)
    /\ "applseqnum" \in DOMAIN out[1] =>
          out[1]["applseqnum"] = unpack_q(buf[1], 112)

\* C25: a reader never changes the file it reads: in every step in which a
\* reading tool opens the file, reads a record or writes output (any of its
\* own variables changes), the header fields, the file size and every
\* record of the file are the same after the step as before it, also while
\* the engine is appending to the same file.
C25_ReadOnly ==
  [][(readerVars' # readerVars \/ probeVars' # probeVars
        \/ outVars' # outVars) => UNCHANGED fileVars]_vars

\* a tool has opened the file and read a record of it, and the engine has
\* appended to the file meanwhile (the file does change, by the engine)
C25_Witness ==
  /\ pc \in {"scan", "done"}
  /\ nread >= 1
  /\ appended >= 1
  /\ record_count > header.record_count

(***************************************************************************)
(* The single-symbol exporter (the script download_mmap_data.py runs on    *)
(* the server), on the file the Batch Exporter reads.                      *)
(***************************************************************************)
\* export_orders / export_transactions: for i in range(record_count):
\* if target not in sym: continue; ...; out.write(line): the indices of the
\* records among the first n whose line is written, in order
RECURSIVE single_export(_, _)
single_export(tgt, n) ==
  IF n = 0 THEN << >>
  ELSE LET rest == single_export(tgt, n - 1) IN
       IF Contains(tgt, SlotSymbol(n - 1)) THEN Append(rest, n - 1) ELSE rest

\* single-symbol exporter: if sym_str.startswith('6'): exchange = 'XSHG'
\* else 'XSHE', on the symbol stored in the record
single_exchange(sym_str) == IF startswith(sym_str, "6") THEN "XSHG" ELSE "XSHE"

\* batch exporter: if matched_sym.startswith('6'): exchange = 'XSHG' else
\* 'XSHE', on the target that matched
batch_exchange(m) == IF startswith(m, "6") THEN "XSHG" ELSE "XSHE"

\* C26: after a batch export without an end-time bound, the stream of every
\* target s holds the lines the single-symbol exporter writes for s on the
\* same file: the same records in the same order, each with the same keys
\* and the same exchange, whatever the target set (targets that are
\* substrings of other targets or of longer stored symbols included).
C26_BatchEqualsSingle ==
  (tool = "batch" /\ pc = "done" /\ ~truthy(end_time)) =>
    \A t \in DOMAIN files :
       LET single == single_export(t, header.record_count) IN
       /\ files[t] = single
       /\ lines[t] = [n \in DOMAIN single |->
                        export_line(dtype, SlotRec(single[n]))]
       /\ \A k \in Range(files[t]) :
             batch_exchange(t) =
               single_exchange(decode(SlotSymbol(k), "ignore").str)

\* C27: when the Sequence Validator has finished, it has reported violation
\* counts for a channel if and only if the file holds at least 10 records
\* of that channel; a channel with fewer records has no report.
C27_ReportIffTenRecords ==
  (tool = "validate" /\ pc = "done") =>
    \A c \in Channels :
       (c \in DOMAIN report)
       <=> (Len(ChannelRecs(c, Len(recs))) >= MIN_CHANNEL_RECORDS)

\* the orders in which the target set of the run can be iterated
IterationOrders ==
  { q \in Orders(Range(symbols_bytes)) : Len(q) = Len(symbols_bytes) }

\* C28: the stream a record is written to by the Batch Exporter does not
\* depend on the order in which the target set is iterated: every record in
\* the stream of target t is matched to t under every iteration order of
\* the same target set, so two runs on the same file with the same set
\* produce the same streams and counts.
C28_OrderIndependent ==
  tool = "batch" =>
    \A t \in DOMAIN files : \A k \in Range(files[t]) :
       \A order \in IterationOrders :
          matched_sym(order, SlotSymbol(k)) = t

\* C29: in every output stream of the Batch Exporter the lines are in
\* strictly ascending order of the file index of the record each was
\* produced from, there is one line per index written, and over all the
\* streams of the run a record index has at most one line.
C29_AscendingOnce ==
  tool = "batch" =>
    /\ \A t \in DOMAIN files :
          /\ Ascending(files[t])
          /\ Len(lines[t]) = Len(files[t])
    /\ \A k \in Written :
          Cardinality({ p \in (DOMAIN files) \X (1..i) :
                          p[2] \in DOMAIN files[p[1]]
                          /\ files[p[1]][p[2]] = k }) <= 1

\* a finished export in which one stream holds two lines or more and
\* another stream holds a line, from a file with a record that contains two
\* of the targets
C29_Witness ==
  /\ tool = "batch"
  /\ pc = "done"
  /\ \E t, u \in DOMAIN files :
        t # u /\ Len(files[t]) >= 2 /\ Len(files[u]) >= 1
  /\ \E k \in Written :
        Cardinality({ t \in DOMAIN files : Contains(t, SlotSymbol(k)) }) >= 2

====
